---- MODULE Spec2Model ----
(***************************************************************************)
(* The in-memory adaptive interview state machine of the interview-state   *)
(* service (src/src/services/interview-state.service.ts) together with the *)
(* WebSocket handlers that push candidate telemetry into it                *)
(* (socket.service.ts).                                                    *)
(*                                                                         *)
(* Conventions                                                             *)
(*  - An optional field (TypeScript `x?: T`) is a sequence: <<>> when it   *)
(*    is undefined and <<v>> when it holds v.                              *)
(*  - A score average is an exact rational [num, den] in lowest terms;     *)
(*    comparisons cross-multiply.                                          *)
(*  - The clock `now` counts milliseconds, as Date.getTime() does.         *)
(*  - The state fields that are set at construction and never read or      *)
(*    written by the operations below (userId, sessionId, roundOrder,      *)
(*    targetRole, targetCompany, experienceLevel, resumeContext, question  *)
(*    text/feedback strings, createdAt) are left out.                      *)
(***************************************************************************)
EXTENDS Integers, Sequences, FiniteSets, TLC

VARIABLES
    stateStore,         \* Map<string, InterviewState>: a function on the ids present
    persistenceTimers,  \* Map<string, Timeout>: interview id -> timer handle
    activeTimers,       \* setInterval timers not yet cleared: handle -> interview id
    pendingPersist,     \* persistState calls suspended at the database await
    uuidCount,          \* number of uuidv4() values handed out
    timerCount,         \* number of setInterval handles handed out
    now,                \* wall clock, ms
    socketData,         \* socket id -> [status, data.interviewId (optional), rooms]
    interviewRooms,     \* Map<string, Set<string>>: interview id -> socket ids
    interviewSession,   \* database table: session id -> row
    interviewRound,     \* database table: round id -> row
    pendingCalls,       \* service calls suspended at an await, with their locals
    ret                 \* what the last call returned

vars == <<stateStore, persistenceTimers, activeTimers, pendingPersist, uuidCount,
          timerCount, now, socketData, interviewRooms, interviewSession,
          interviewRound, pendingCalls, ret>>

timerVars == <<persistenceTimers, activeTimers, pendingPersist, timerCount>>
socketVars == <<socketData, interviewRooms>>
dbVars == <<interviewSession, interviewRound, pendingCalls>>

-----------------------------------------------------------------------------
(* Bounds of the model *)

MaxQuestions == 2        \* Spec: questions asked
MaxAnswers == 2          \* Spec: successful recordAnswer calls
MaxTrendQuestions == 2   \* SpecDifficulty: questions asked
MaxTrendAnswers == 4     \* SpecDifficulty: successful recordAnswer calls
MaxTopicQuestions == 2   \* SpecTopics: questions asked
MaxTopicAnswers == 1     \* SpecTopics: successful recordAnswer calls
MaxTicks == 1            \* clock steps
MaxWrapQuestions == 5    \* SpecWrap: questions asked
MaxWrapAnswers == 1      \* SpecWrap: successful recordAnswer calls
MaxLifeQuestions == 1    \* SpecLifecycle: questions asked
MaxLifeAnswers == 2      \* SpecLifecycle: successful recordAnswer calls
MaxLifeHints == 1        \* SpecLifecycle: hints taken
MaxLifeSubmissions == 1  \* SpecLifecycle: code submissions
MaxHints == 2            \* SpecCoding: hints taken
MaxSubmissions == 1      \* SpecCoding: code submissions over all presented problems
MaxCreates == 2          \* SpecMissing: times the interview is created
MaxMissingQuestions == 1 \* SpecMissing: questions logged per created interview
MaxEvaluations == 2      \* SpecEvaluate: answers evaluated
MaxRetriesConfig == 3    \* SpecRetry: largest maxRetries tried (the default is 3)
MaxWindowAnswers == 6    \* SpecWindow: answers recorded (one more than the window)
MaxAreaQuestions == 2    \* SpecAreas: questions asked
MaxAreaAnswers == 2      \* SpecAreas: answers recorded
MaxExecuteIds == 3       \* SpecExecute: uuids drawn (one state, two runs)
MaxPresentHints == 1     \* SpecPresent: hints taken on one problem
MaxPresentSubmissions == 1 \* SpecPresent: runs submitted
MaxPersistCreates == 2   \* SpecPersist: times the interview is created
MaxRecreates == 2        \* SpecRecreate: times the interview is created
MaxRounds == 3           \* SpecRounds: rounds of a session
MaxInterleaveRounds == 2 \* SpecInterleave: rounds of the session
MaxAwaitQuestions == 2   \* SpecAwait: questions asked
MaxAwaitAnswers == 2     \* SpecAwait: evaluations begun
MaxToolIds == 3          \* SpecTools: uuids handed out (states, questions, submissions)

\* one clock step, ms (not a multiple of 1000, so that Math.floor matters)
TickMs == 54500

InterviewIds == {"i1", "i2"}
SocketIds == {"s1", "s2"}

-----------------------------------------------------------------------------
(* Enumerations of interview-state.types.ts *)

RoundTypes == {"BEHAVIORAL", "TECHNICAL", "CODING", "SYSTEM_DESIGN", "HR"}

Difficulties == {"EASY", "MEDIUM", "HARD"}

QuestionCategories ==
    {"introduction", "experience", "behavioral", "technical_concept",
     "problem_solving", "system_design", "coding", "culture_fit", "closing"}

InterviewPhases ==
    {"not_started", "introduction", "main_questions", "deep_dive", "coding_setup",
     "coding_active", "coding_review", "wrap_up", "completed"}

-----------------------------------------------------------------------------
(* Optional values *)

\* new Map()
EmptyMap == [i \in {} |-> {}]

None == <<>>
Some(v) == <<v>>
IsSome(o) == o # <<>>
Get(o) == o[1]

(* Exact rationals *)

RECURSIVE GCD(_, _)
GCD(a, b) == IF b = 0 THEN a ELSE GCD(b, a % b)

Frac(n, d) ==
    LET g == GCD(n, d)
    IN  IF n = 0 THEN [num |-> 0, den |-> 1] ELSE [num |-> n \div g, den |-> d \div g]

Zero == [num |-> 0, den |-> 1]

FracGE(a, b) == a.num * b.den >= b.num * a.den
FracGT(a, b) == a.num * b.den > b.num * a.den
FracLT(a, b) == a.num * b.den < b.num * a.den
FracLE(a, b) == a.num * b.den <= b.num * a.den
FracInt(n) == [num |-> n, den |-> 1]
FracAdd(a, b) == Frac(a.num * b.den + b.num * a.den, a.den * b.den)
FracSub(a, b) == [num |-> a.num * b.den - b.num * a.den, den |-> a.den * b.den]
FracDivInt(a, n) == Frac(a.num, a.den * n)

RECURSIVE SumSeq(_)
SumSeq(s) == IF s = <<>> THEN 0 ELSE s[1] + SumSeq(Tail(s))

RECURSIVE FracSum(_, _)
FracSum(f, S) ==
    IF S = {} THEN Zero
    ELSE LET x == CHOOSE y \in S : TRUE IN FracAdd(f[x], FracSum(f, S \ {x}))

Max(a, b) == IF a >= b THEN a ELSE b

-----------------------------------------------------------------------------
(* Return values *)

Null == [kind |-> "null"]
Void == [kind |-> "void"]
Pending == [kind |-> "pending"]
StateRef(state) == [kind |-> "state", id |-> state.id, phase |-> state.phase]
QuestionRef(q) == [kind |-> "question", id |-> q.id]
CodingRef(c) == [kind |-> "coding", coding |-> c]

(* Seconds between two clock readings: Math.floor((b - a) / 1000) *)
FloorSeconds(a, b) == (b - a) \div 1000

-----------------------------------------------------------------------------
(* Defaults *)

createDefaultTopicCoverage ==
    [c \in QuestionCategories |->
        [questionsAsked |-> 0, averageScore |-> Zero, covered |-> FALSE,
         depth |-> "shallow"]]

createDefaultPerformance ==
    [totalQuestions |-> 0,
     answeredQuestions |-> 0,
     averageScore |-> Zero,
     recentScores |-> <<>>,
     scoreTrend |-> "stable",
     strongAreas |-> {},
     weakAreas |-> {},
     suggestedDifficulty |-> "MEDIUM",
     confidenceLevel |-> "medium"]

getDefaultDuration(roundType) ==
    CASE roundType = "BEHAVIORAL" -> 20
      [] roundType = "TECHNICAL" -> 30
      [] roundType = "CODING" -> 45
      [] roundType = "SYSTEM_DESIGN" -> 45
      [] roundType = "HR" -> 15
      [] OTHER -> 30

getMinQuestionsForRound(roundType) ==
    CASE roundType = "BEHAVIORAL" -> 4
      [] roundType = "TECHNICAL" -> 5
      [] roundType = "CODING" -> 1
      [] roundType = "SYSTEM_DESIGN" -> 2
      [] roundType = "HR" -> 3
      [] OTHER -> 4

SignalKeys ==
    {"currentExpression", "expressionConfidence", "averageExpressions",
     "currentPauseSeconds", "longPauseDetected", "isTyping", "lastCodeUpdate",
     "codeLength"}

\* candidateSignals: {} -- every key reads as undefined
EmptySignals == [k \in SignalKeys |-> None]

-----------------------------------------------------------------------------
(* Persistence timer bookkeeping *)

\* setInterval hands out a fresh handle; the map entry for the id is overwritten
startPersistenceTimer(interviewId) ==
    /\ timerCount' = timerCount + 1
    /\ activeTimers' = activeTimers \cup {[handle |-> timerCount + 1, iid |-> interviewId]}
    /\ persistenceTimers' =
          [i \in DOMAIN persistenceTimers \cup {interviewId} |->
              IF i = interviewId THEN timerCount + 1 ELSE persistenceTimers[i]]

\* clearInterval on the handle the map holds for the id, and drop the entry
stopPersistenceTimer(interviewId) ==
    IF interviewId \in DOMAIN persistenceTimers
    THEN /\ activeTimers' =
              {t \in activeTimers : t.handle # persistenceTimers[interviewId]}
         /\ persistenceTimers' =
              [i \in DOMAIN persistenceTimers \ {interviewId} |-> persistenceTimers[i]]
    ELSE UNCHANGED <<activeTimers, persistenceTimers>>

-----------------------------------------------------------------------------
(* The store *)

HasState(interviewId) == interviewId \in DOMAIN stateStore

\* stateStore.set(id, state)
StoreSet(interviewId, state) ==
    [i \in DOMAIN stateStore \cup {interviewId} |->
        IF i = interviewId THEN state ELSE stateStore[i]]

\* est = 0 stands for an omitted estimatedDurationMinutes (`||` treats both alike)
NewInterviewState(roundType, est) ==
          [id |-> uuidCount + 1,
           roundType |-> roundType,
           startedAt |-> now,
           lastActivityAt |-> now,
           estimatedDurationMinutes |->
               IF est # 0 THEN est ELSE getDefaultDuration(roundType),
           elapsedSeconds |-> 0,
           questions |-> <<>>,
           currentQuestionIndex |-> -1,
           topicCoverage |-> createDefaultTopicCoverage,
           performance |-> createDefaultPerformance,
           codingState |-> None,
           phase |-> "not_started",
           canProceedToNext |-> TRUE,
           shouldWrapUp |-> FALSE,
           candidateSignals |-> EmptySignals,
           updatedAt |-> now,
           persistedAt |-> None]

\* mutant: a second creation keeps the question log and the metrics of the
\* state it finds
createInterviewStateMerges(interviewId, roundType, est) ==
    LET fresh == NewInterviewState(roundType, est)
        state == IF HasState(interviewId)
                 THEN [fresh EXCEPT
                         !.questions = stateStore[interviewId].questions,
                         !.performance = stateStore[interviewId].performance]
                 ELSE fresh
    IN  /\ uuidCount' = uuidCount + 1
        /\ stateStore' = StoreSet(interviewId, state)
        /\ startPersistenceTimer(interviewId)
        /\ ret' = StateRef(state)
        /\ UNCHANGED <<pendingPersist, now, dbVars, socketVars>>

createInterviewState(interviewId, roundType, est) ==
    LET state == NewInterviewState(roundType, est)
    IN  /\ uuidCount' = uuidCount + 1
        /\ stateStore' = StoreSet(interviewId, state)
        /\ startPersistenceTimer(interviewId)
        /\ ret' = StateRef(state)
        /\ UNCHANGED <<pendingPersist, now, dbVars, socketVars>>

\* the body of setPhase on a state that exists
ApplySetPhase(state, phase) ==
    [state EXCEPT !.phase = phase, !.lastActivityAt = now, !.updatedAt = now]

setPhase(interviewId, phase) ==
    IF ~HasState(interviewId)
    THEN /\ ret' = Null
         /\ UNCHANGED <<stateStore, timerVars, uuidCount, now, dbVars, socketVars>>
    ELSE LET state == ApplySetPhase(stateStore[interviewId], phase)
         IN  /\ stateStore' = StoreSet(interviewId, state)
             /\ ret' = StateRef(state)
             /\ UNCHANGED <<timerVars, uuidCount, now, dbVars, socketVars>>

-----------------------------------------------------------------------------
(* Question / answer recording *)

\* the QuestionState recordQuestion builds
NewQuestion(category, difficulty, isFollowUp) ==
    [id |-> uuidCount + 1,
     category |-> category,
     difficulty |-> difficulty,
     askedAt |-> now,
     isFollowUp |-> isFollowUp,
     answeredAt |-> None,
     score |-> None,
     followUpAsked |-> None,
     timeSpentSeconds |-> None]

\* mutant: a topic counts as covered from its second question on
ApplyRecordQuestionCoversLate(old, question) ==
    LET questions == Append(old.questions, question)
        topic == old.topicCoverage[question.category]
        asked == topic.questionsAsked + 1
        newTopic ==
          [topic EXCEPT
             !.questionsAsked = asked,
             !.covered = asked >= 2,
             !.depth = IF asked >= 2 /\ question.isFollowUp THEN "deep"
                       ELSE IF asked >= 2 THEN "moderate"
                       ELSE @]
    IN  [old EXCEPT
           !.questions = questions,
           !.currentQuestionIndex = Len(questions) - 1,
           !.lastActivityAt = now,
           !.updatedAt = now,
           !.topicCoverage[question.category] = newTopic,
           !.performance.totalQuestions = @ + 1]

\* the body of recordQuestion on a state that exists
ApplyRecordQuestion(old, question) ==
    LET questions == Append(old.questions, question)
        topic == old.topicCoverage[question.category]
        asked == topic.questionsAsked + 1
        newTopic ==
          [topic EXCEPT
             !.questionsAsked = asked,
             !.covered = TRUE,
             !.depth = IF asked >= 2 /\ question.isFollowUp THEN "deep"
                       ELSE IF asked >= 2 THEN "moderate"
                       ELSE @]
    IN  [old EXCEPT
           !.questions = questions,
           !.currentQuestionIndex = Len(questions) - 1,
           !.lastActivityAt = now,
           !.updatedAt = now,
           !.topicCoverage[question.category] = newTopic,
           !.performance.totalQuestions = @ + 1]

recordQuestion(interviewId, category, difficulty, isFollowUp) ==
    IF ~HasState(interviewId)
    THEN /\ ret' = Null
         /\ UNCHANGED <<stateStore, timerVars, uuidCount, now, dbVars, socketVars>>
    ELSE LET question == NewQuestion(category, difficulty, isFollowUp)
             state == ApplyRecordQuestion(stateStore[interviewId], question)
         IN  /\ uuidCount' = uuidCount + 1
             /\ stateStore' = StoreSet(interviewId, state)
             /\ ret' = QuestionRef(question)
             /\ UNCHANGED <<timerVars, now, dbVars, socketVars>>

\* sum of the scores of the questions satisfying `keep` that have a score
RECURSIVE TotalScore(_, _)
TotalScore(questions, cats) ==
    IF questions = <<>> THEN 0
    ELSE (IF IsSome(questions[1].score) /\ questions[1].category \in cats
          THEN Get(questions[1].score) ELSE 0)
         + TotalScore(Tail(questions), cats)

ScoredIndices(questions, cats) ==
    {k \in 1..Len(questions) :
        IsSome(questions[k].score) /\ questions[k].category \in cats}

updateStrengthsAndWeaknesses(state) ==
    LET topicsWithScores ==
          {c \in QuestionCategories :
              /\ state.topicCoverage[c].questionsAsked > 0
              /\ FracGT(state.topicCoverage[c].averageScore, Zero)}
        score == [c \in topicsWithScores |-> state.topicCoverage[c].averageScore]
        avgScore == FracDivInt(FracSum(score, topicsWithScores),
                               Cardinality(topicsWithScores))
    IN  IF topicsWithScores = {} THEN state
        ELSE [state EXCEPT
                !.performance.strongAreas =
                    {c \in topicsWithScores :
                        FracGE(score[c], FracAdd(avgScore, FracInt(1)))},
                !.performance.weakAreas =
                    {c \in topicsWithScores :
                        FracLE(score[c], FracSub(avgScore, FracInt(1)))}]

\* mutant: the HARD rule asks for an average above 8
adjustSuggestedDifficultyStrict(state) ==
    LET avgScore == state.performance.averageScore
        trend == state.performance.scoreTrend
    IN  [state EXCEPT !.performance.suggestedDifficulty =
            IF FracGT(avgScore, FracInt(8)) /\ trend # "declining" THEN "HARD"
            ELSE IF FracGE(avgScore, FracInt(6)) \/ trend = "improving" THEN "MEDIUM"
            ELSE IF FracLT(avgScore, FracInt(5)) /\ trend = "declining" THEN "EASY"
            ELSE "MEDIUM"]

\* mutant: the EASY rule accepts an average of exactly 5
adjustSuggestedDifficultyEasyAtFive(state) ==
    LET avgScore == state.performance.averageScore
        trend == state.performance.scoreTrend
    IN  [state EXCEPT !.performance.suggestedDifficulty =
            IF FracGE(avgScore, FracInt(8)) /\ trend # "declining" THEN "HARD"
            ELSE IF FracGE(avgScore, FracInt(6)) \/ trend = "improving" THEN "MEDIUM"
            ELSE IF FracLE(avgScore, FracInt(5)) /\ trend = "declining" THEN "EASY"
            ELSE "MEDIUM"]

adjustSuggestedDifficulty(state) ==
    LET avgScore == state.performance.averageScore
        trend == state.performance.scoreTrend
    IN  [state EXCEPT !.performance.suggestedDifficulty =
            IF FracGE(avgScore, FracInt(8)) /\ trend # "declining" THEN "HARD"
            ELSE IF FracGE(avgScore, FracInt(6)) \/ trend = "improving" THEN "MEDIUM"
            ELSE IF FracLT(avgScore, FracInt(5)) /\ trend = "declining" THEN "EASY"
            ELSE "MEDIUM"]

\* the trend of a rolling window of at least 3 scores
ScoreTrend(recentScores) ==
    LET n == Len(recentScores)
        recent == SumSeq(SubSeq(recentScores, n - 2, n))
        prev == SumSeq(SubSeq(recentScores, 1, n - 3))
        k == Max(1, n - 3)
        \* avg = recent / 3, prevAvg = prev / k
    IN  IF recent * k > (prev + k) * 3 THEN "improving"
        ELSE IF recent * k < (prev - k) * 3 THEN "declining"
        ELSE "stable"

\* mutant: a sixth score is dropped instead of the oldest one
updatePerformanceMetricsEvictsNewest(state, question) ==
    LET perf == state.performance
        answered == perf.answeredQuestions + 1
        pushed == IF IsSome(question.score)
                  THEN Append(perf.recentScores, Get(question.score))
                  ELSE perf.recentScores
        recentScores == IF Len(pushed) > 5 THEN SubSeq(pushed, 1, 5) ELSE pushed
        totalScore == TotalScore(state.questions, QuestionCategories)
        s1 == [state EXCEPT
                 !.performance.answeredQuestions = answered,
                 !.performance.recentScores = recentScores,
                 !.performance.averageScore =
                     IF answered > 0 THEN Frac(totalScore, answered) ELSE Zero,
                 !.performance.scoreTrend =
                     IF Len(recentScores) >= 3 THEN ScoreTrend(recentScores) ELSE @]
    IN  adjustSuggestedDifficulty(updateStrengthsAndWeaknesses(s1))

updatePerformanceMetrics(state, question) ==
    LET perf == state.performance
        answered == perf.answeredQuestions + 1
        pushed == IF IsSome(question.score)
                  THEN Append(perf.recentScores, Get(question.score))
                  ELSE perf.recentScores
        recentScores == IF Len(pushed) > 5 THEN Tail(pushed) ELSE pushed
        totalScore == TotalScore(state.questions, QuestionCategories)
        s1 == [state EXCEPT
                 !.performance.answeredQuestions = answered,
                 !.performance.recentScores = recentScores,
                 !.performance.averageScore =
                     IF answered > 0 THEN Frac(totalScore, answered) ELSE Zero,
                 !.performance.scoreTrend =
                     IF Len(recentScores) >= 3 THEN ScoreTrend(recentScores) ELSE @]
    IN  adjustSuggestedDifficulty(updateStrengthsAndWeaknesses(s1))

updateTopicCoverageScore(state, question) ==
    LET n == Cardinality(ScoredIndices(state.questions, {question.category}))
        totalScore == TotalScore(state.questions, {question.category})
    IN  [state EXCEPT !.topicCoverage[question.category].averageScore =
            IF n > 0 THEN Frac(totalScore, n) ELSE Zero]

\* mutant: the question-count rule asks for an average above 5
checkWrapUpConditionsAboveFive(state) ==
    IF state.elapsedSeconds * 10 >= state.estimatedDurationMinutes * 9 * 60
    THEN [state EXCEPT !.shouldWrapUp = TRUE]
    ELSE IF /\ state.performance.totalQuestions >= getMinQuestionsForRound(state.roundType)
            /\ FracGT(state.performance.averageScore, FracInt(5))
         THEN [state EXCEPT !.shouldWrapUp = TRUE]
         ELSE state

\* mutant: the flag is assigned the outcome of the check
checkWrapUpConditionsAssigns(state) ==
    [state EXCEPT !.shouldWrapUp =
        \/ state.elapsedSeconds * 10 >= state.estimatedDurationMinutes * 9 * 60
        \/ /\ state.performance.totalQuestions >= getMinQuestionsForRound(state.roundType)
           /\ FracGE(state.performance.averageScore, FracInt(5))]

checkWrapUpConditions(state) ==
    \* elapsedSeconds / 60 >= estimatedDurationMinutes * 0.9
    IF state.elapsedSeconds * 10 >= state.estimatedDurationMinutes * 9 * 60
    THEN [state EXCEPT !.shouldWrapUp = TRUE]
    ELSE IF /\ state.performance.totalQuestions >= getMinQuestionsForRound(state.roundType)
            /\ FracGE(state.performance.averageScore, FracInt(5))
         THEN [state EXCEPT !.shouldWrapUp = TRUE]
         ELSE state

\* mutant: an id that is in no log falls back to the latest question
FindQuestionOrLatest(questions, questionId) ==
    IF \E k \in 1..Len(questions) : questions[k].id = questionId
    THEN CHOOSE k \in 1..Len(questions) :
            /\ questions[k].id = questionId
            /\ \A j \in 1..(k - 1) : questions[j].id # questionId
    ELSE Len(questions)

\* the position of the first question with the given id, 0 when there is none
FindQuestion(questions, questionId) ==
    IF \E k \in 1..Len(questions) : questions[k].id = questionId
    THEN CHOOSE k \in 1..Len(questions) :
            /\ questions[k].id = questionId
            /\ \A j \in 1..(k - 1) : questions[j].id # questionId
    ELSE 0

\* the question at position k as recordAnswer stamps it
AnsweredQuestion(old, k, score, suggestFollowUp) ==
    [old.questions[k] EXCEPT
       !.answeredAt = Some(now),
       !.score = Some(score),
       !.followUpAsked = suggestFollowUp,
       !.timeSpentSeconds = Some(FloorSeconds(old.questions[k].askedAt, now))]

\* the body of recordAnswer once the question is found at position k
ApplyRecordAnswer(old, k, score, suggestFollowUp) ==
    LET question == AnsweredQuestion(old, k, score, suggestFollowUp)
        s1 == [old EXCEPT
                 !.questions[k] = question,
                 !.lastActivityAt = now,
                 !.updatedAt = now]
        s2 == updatePerformanceMetrics(s1, question)
        s3 == updateTopicCoverageScore(s2, question)
    IN  checkWrapUpConditions(s3)

recordAnswer(interviewId, questionId, score, suggestFollowUp) ==
    IF ~HasState(interviewId)
    THEN /\ ret' = Null
         /\ UNCHANGED <<stateStore, timerVars, uuidCount, now, dbVars, socketVars>>
    ELSE LET old == stateStore[interviewId]
             k == FindQuestion(old.questions, questionId)
         IN  IF k = 0
             THEN /\ ret' = Null
                  /\ UNCHANGED <<stateStore, timerVars, uuidCount, now, dbVars, socketVars>>
             ELSE LET question == AnsweredQuestion(old, k, score, suggestFollowUp)
                      s4 == ApplyRecordAnswer(old, k, score, suggestFollowUp)
                  IN  /\ stateStore' = StoreSet(interviewId, s4)
                      /\ ret' = QuestionRef(question)
                      /\ UNCHANGED <<timerVars, uuidCount, now, dbVars, socketVars>>

-----------------------------------------------------------------------------
(* Candidate signals *)

\* `signals` is a partial object: a function from the keys it carries to their
\* values; a key carried with the value undefined maps to None.
MergeSignals(old, signals) ==
    [k \in SignalKeys |-> IF k \in DOMAIN signals THEN signals[k] ELSE old[k]]

\* expression shares are in hundredths: 0.6 is 60
updateConfidenceLevel(state) ==
    LET signals == state.candidateSignals
        avgExpressions == signals.averageExpressions
        e == Get(avgExpressions)
        positiveScore == e.happy + e.neutral
        negativeScore == e.fearful + e.sad + e.angry
        byExpression ==
            IF IsSome(avgExpressions)
            THEN IF positiveScore > 60 /\ negativeScore < 20 THEN "high"
                 ELSE IF negativeScore > 40 THEN "low"
                 ELSE "medium"
            ELSE state.performance.confidenceLevel
    IN  [state EXCEPT !.performance.confidenceLevel =
            IF signals.longPauseDetected = Some(TRUE) THEN "low" ELSE byExpression]

\* the body of updateCandidateSignals on a state that exists
ApplyCandidateSignals(state, signals) ==
    updateConfidenceLevel(
        [state EXCEPT
            !.candidateSignals = MergeSignals(state.candidateSignals, signals),
            !.lastActivityAt = now])

updateCandidateSignals(interviewId, signals) ==
    IF ~HasState(interviewId)
    THEN /\ ret' = Null
         /\ UNCHANGED <<stateStore, timerVars, uuidCount, now, dbVars, socketVars>>
    ELSE LET state == ApplyCandidateSignals(stateStore[interviewId], signals)
         IN  /\ stateStore' = StoreSet(interviewId, state)
             /\ ret' = StateRef(state)
             /\ UNCHANGED <<timerVars, uuidCount, now, dbVars, socketVars>>

-----------------------------------------------------------------------------
(* Coding sub-state *)

\* a CodeExecutionResult: testResults is optional, and when present it is the
\* sequence of the tests' `passed` flags
PassedCount(testResults) ==
    Cardinality({k \in 1..Len(testResults) : testResults[k]})

\* problem: [id, starterCode, hints, testCases]
\* the CodingState initializeCodingState builds
NewCodingState(problem, language) ==
    [problemId |-> problem.id,
     language |-> language,
     currentCode |-> problem.starterCode,
     starterCode |-> problem.starterCode,
     hintsUsed |-> 0,
     hintsAvailable |-> problem.hints,
     testCasesPassed |-> 0,
     totalTestCases |-> problem.testCases,
     lastExecutionResult |-> None,
     submissions |-> <<>>,
     startedAt |-> now,
     timeSpentSeconds |-> 0]

\* mutant: a problem presented over a coding sub-state keeps its hint counter
\* and its submission log
ApplyInitializeCodingKeepsLog(state, problem, language) ==
    LET fresh == NewCodingState(problem, language)
        coding == IF IsSome(state.codingState)
                  THEN [fresh EXCEPT
                          !.hintsUsed = Get(state.codingState).hintsUsed,
                          !.submissions = Get(state.codingState).submissions]
                  ELSE fresh
    IN  [state EXCEPT
           !.codingState = Some(coding),
           !.phase = "coding_setup",
           !.lastActivityAt = now,
           !.updatedAt = now]

\* the body of initializeCodingState on a state that exists
ApplyInitializeCoding(state, problem, language) ==
    [state EXCEPT
       !.codingState = Some(NewCodingState(problem, language)),
       !.phase = "coding_setup",
       !.lastActivityAt = now,
       !.updatedAt = now]

initializeCodingState(interviewId, problem, language) ==
    IF ~HasState(interviewId)
    THEN /\ ret' = Null
         /\ UNCHANGED <<stateStore, timerVars, uuidCount, now, dbVars, socketVars>>
    ELSE LET codingState == NewCodingState(problem, language)
             state == ApplyInitializeCoding(stateStore[interviewId], problem, language)
         IN  /\ stateStore' = StoreSet(interviewId, state)
             /\ ret' = CodingRef(codingState)
             /\ UNCHANGED <<timerVars, uuidCount, now, dbVars, socketVars>>

\* mutant: a payload without code puts the starter code back
ApplyCodingUpdateResetsCode(state, payload) ==
    LET coding == Get(state.codingState)
        result == Get(payload.executionResult)
        c1 == [coding EXCEPT
                 !.currentCode = IF IsSome(payload.code) THEN Get(payload.code)
                                 ELSE coding.starterCode,
                 !.language = IF IsSome(payload.language) THEN Get(payload.language) ELSE @,
                 !.hintsUsed = IF payload.hintUsed = Some(TRUE) THEN @ + 1 ELSE @,
                 !.lastExecutionResult =
                     IF IsSome(payload.executionResult) THEN payload.executionResult ELSE @,
                 !.testCasesPassed =
                     IF IsSome(payload.executionResult) /\ IsSome(result.testResults)
                     THEN PassedCount(Get(result.testResults)) ELSE @,
                 !.timeSpentSeconds = FloorSeconds(coding.startedAt, now)]
    IN  [state EXCEPT
            !.codingState = Some(c1), !.lastActivityAt = now, !.updatedAt = now]

\* payload: [code, language, hintUsed, executionResult], each optional.
\* The body of updateCodingState on a state that has a coding sub-state.
ApplyCodingUpdate(state, payload) ==
    LET coding == Get(state.codingState)
        result == Get(payload.executionResult)
        c1 == [coding EXCEPT
                 !.currentCode = IF IsSome(payload.code) THEN Get(payload.code) ELSE @,
                 !.language = IF IsSome(payload.language) THEN Get(payload.language) ELSE @,
                 !.hintsUsed = IF payload.hintUsed = Some(TRUE) THEN @ + 1 ELSE @,
                 !.lastExecutionResult =
                     IF IsSome(payload.executionResult) THEN payload.executionResult ELSE @,
                 !.testCasesPassed =
                     IF IsSome(payload.executionResult) /\ IsSome(result.testResults)
                     THEN PassedCount(Get(result.testResults)) ELSE @,
                 !.timeSpentSeconds = FloorSeconds(coding.startedAt, now)]
    IN  [state EXCEPT
            !.codingState = Some(c1), !.lastActivityAt = now, !.updatedAt = now]

updateCodingState(interviewId, payload) ==
    IF ~HasState(interviewId) \/ ~IsSome(stateStore[interviewId].codingState)
    THEN /\ ret' = Null
         /\ UNCHANGED <<stateStore, timerVars, uuidCount, now, dbVars, socketVars>>
    ELSE LET state == ApplyCodingUpdate(stateStore[interviewId], payload)
         IN  /\ stateStore' = StoreSet(interviewId, state)
             /\ ret' = CodingRef(Get(state.codingState))
             /\ UNCHANGED <<timerVars, uuidCount, now, dbVars, socketVars>>

\* the body of recordCodeSubmission on a state that has a coding sub-state
ApplyRecordSubmission(old, code, language, result) ==
    LET coding == Get(old.codingState)
        c1 == [coding EXCEPT
                 !.submissions =
                     Append(@, [id |-> uuidCount + 1, code |-> code,
                                language |-> language, submittedAt |-> now,
                                result |-> result]),
                 !.lastExecutionResult = Some(result),
                 !.testCasesPassed =
                     IF IsSome(result.testResults)
                     THEN PassedCount(Get(result.testResults)) ELSE @]
    IN  [old EXCEPT
           !.codingState = Some(c1),
           !.lastActivityAt = now,
           !.updatedAt = now]

recordCodeSubmission(interviewId, code, language, result) ==
    IF ~HasState(interviewId) \/ ~IsSome(stateStore[interviewId].codingState)
    THEN /\ ret' = Null
         /\ UNCHANGED <<stateStore, timerVars, uuidCount, now, dbVars, socketVars>>
    ELSE LET state == ApplyRecordSubmission(stateStore[interviewId], code,
                                            language, result)
             c1 == Get(state.codingState)
         IN  /\ uuidCount' = uuidCount + 1
             /\ stateStore' = StoreSet(interviewId, state)
             /\ ret' = CodingRef(c1)
             /\ UNCHANGED <<timerVars, now, dbVars, socketVars>>

-----------------------------------------------------------------------------
(* Snapshot projection *)

\* Math.round(n / d) for n >= 0, d > 0
RoundDiv(n, d) == (2 * n + d) \div (2 * d)

\* mutant: the remaining topics are those with no scored answer yet
SnapshotRemainingByScore(state) ==
    [phase |-> state.phase,
     questionsAsked |-> state.performance.totalQuestions,
     averageScoreTenths |->
         RoundDiv(state.performance.averageScore.num * 10,
                  state.performance.averageScore.den),
     topicsCovered |-> {c \in QuestionCategories : state.topicCoverage[c].covered},
     topicsRemaining |->
         {c \in QuestionCategories : state.topicCoverage[c].averageScore = Zero},
     suggestedDifficulty |-> state.performance.suggestedDifficulty,
     timeElapsedMinutes |-> RoundDiv(state.elapsedSeconds, 60),
     shouldWrapUp |-> state.shouldWrapUp,
     codingProgress |->
         IF IsSome(state.codingState)
         THEN Some([problemId |-> Get(state.codingState).problemId,
                    testsPassed |-> Get(state.codingState).testCasesPassed,
                    totalTests |-> Get(state.codingState).totalTestCases,
                    hintsUsed |-> Get(state.codingState).hintsUsed])
         ELSE None]

Snapshot(state) ==
    [phase |-> state.phase,
     questionsAsked |-> state.performance.totalQuestions,
     \* Math.round(averageScore * 10) / 10, kept in tenths
     averageScoreTenths |->
         RoundDiv(state.performance.averageScore.num * 10,
                  state.performance.averageScore.den),
     topicsCovered |-> {c \in QuestionCategories : state.topicCoverage[c].covered},
     topicsRemaining |-> {c \in QuestionCategories : ~state.topicCoverage[c].covered},
     suggestedDifficulty |-> state.performance.suggestedDifficulty,
     timeElapsedMinutes |-> RoundDiv(state.elapsedSeconds, 60),
     shouldWrapUp |-> state.shouldWrapUp,
     codingProgress |->
         IF IsSome(state.codingState)
         THEN Some([problemId |-> Get(state.codingState).problemId,
                    testsPassed |-> Get(state.codingState).testCasesPassed,
                    totalTests |-> Get(state.codingState).totalTestCases,
                    hintsUsed |-> Get(state.codingState).hintsUsed])
         ELSE None]

getStateSnapshot(interviewId) ==
    /\ ret' = IF ~HasState(interviewId) THEN Null
              ELSE [kind |-> "snapshot", snap |-> Snapshot(stateStore[interviewId])]
    /\ UNCHANGED <<stateStore, timerVars, uuidCount, now, dbVars, socketVars>>

-----------------------------------------------------------------------------
(* Time, completion, persistence, deletion *)

ElapsedSeconds(state) == FloorSeconds(state.startedAt, now)

updateElapsedTime(interviewId) ==
    /\ ret' = Void
    /\ stateStore' =
          IF ~HasState(interviewId) THEN stateStore
          ELSE StoreSet(interviewId,
                        [stateStore[interviewId] EXCEPT
                            !.elapsedSeconds = ElapsedSeconds(stateStore[interviewId])])
    /\ UNCHANGED <<timerVars, uuidCount, now, dbVars, socketVars>>

\* mutant: the database write is issued before the state is looked up
completeInterviewPersistsFirst(interviewId) ==
    IF ~HasState(interviewId)
    THEN /\ pendingPersist' = pendingPersist \cup
               {[iid |-> interviewId, sid |-> 0, caller |-> "complete"]}
         /\ ret' = Pending
         /\ UNCHANGED <<stateStore, persistenceTimers, activeTimers, timerCount,
                        uuidCount, now, dbVars, socketVars>>
    ELSE LET old == stateStore[interviewId]
             state == [old EXCEPT
                         !.phase = "completed",
                         !.updatedAt = now,
                         !.elapsedSeconds = ElapsedSeconds(old)]
         IN  /\ stateStore' = StoreSet(interviewId, state)
             /\ pendingPersist' = pendingPersist \cup
                   {[iid |-> interviewId, sid |-> state.id, caller |-> "complete"]}
             /\ ret' = Pending
             /\ UNCHANGED <<persistenceTimers, activeTimers, timerCount, uuidCount,
                            now, dbVars, socketVars>>

\* mutant: an interview that never started is not marked completed
completeInterviewSkipsNotStarted(interviewId) ==
    IF ~HasState(interviewId)
    THEN /\ ret' = Null
         /\ UNCHANGED <<stateStore, timerVars, uuidCount, now, dbVars, socketVars>>
    ELSE LET old == stateStore[interviewId]
             state == [old EXCEPT
                         !.phase = IF old.phase = "not_started"
                                   THEN old.phase ELSE "completed",
                         !.updatedAt = now,
                         !.elapsedSeconds = ElapsedSeconds(old)]
         IN  /\ stateStore' = StoreSet(interviewId, state)
             /\ pendingPersist' = pendingPersist \cup
                   {[iid |-> interviewId, sid |-> state.id, caller |-> "complete"]}
             /\ ret' = Pending
             /\ UNCHANGED <<persistenceTimers, activeTimers, timerCount, uuidCount,
                            now, dbVars, socketVars>>

\* completeInterview up to its `await persistState(interviewId)`: the state is
\* marked completed and the database write is in flight.
completeInterview(interviewId) ==
    IF ~HasState(interviewId)
    THEN /\ ret' = Null
         /\ UNCHANGED <<stateStore, timerVars, uuidCount, now, dbVars, socketVars>>
    ELSE LET old == stateStore[interviewId]
             state == [old EXCEPT
                         !.phase = "completed",
                         !.updatedAt = now,
                         !.elapsedSeconds = ElapsedSeconds(old)]
         IN  /\ stateStore' = StoreSet(interviewId, state)
             /\ pendingPersist' = pendingPersist \cup
                   {[iid |-> interviewId, sid |-> state.id, caller |-> "complete"]}
             /\ ret' = Pending
             /\ UNCHANGED <<persistenceTimers, activeTimers, timerCount, uuidCount,
                            now, dbVars, socketVars>>

\* The interval callback of a live timer: persistState(interviewId) up to its
\* database write.  Nobody receives its result.
timerFires(t) ==
    /\ t \in activeTimers
    /\ pendingPersist' =
          IF HasState(t.iid)
          THEN pendingPersist \cup
                  {[iid |-> t.iid, sid |-> stateStore[t.iid].id, caller |-> "timer"]}
          ELSE pendingPersist
    /\ UNCHANGED <<stateStore, persistenceTimers, activeTimers, timerCount,
                   uuidCount, now, dbVars, socketVars, ret>>

\* mutant: persistedAt is stamped whether or not the write succeeded
persistSettledStampsAlways(p, ok) ==
    /\ p \in pendingPersist
    /\ pendingPersist' = pendingPersist \ {p}
    /\ LET live == HasState(p.iid) /\ stateStore[p.iid].id = p.sid
       IN  /\ stateStore' =
                 IF live
                 THEN StoreSet(p.iid, [stateStore[p.iid] EXCEPT !.persistedAt = Some(now)])
                 ELSE stateStore
           /\ IF p.caller = "complete"
              THEN /\ stopPersistenceTimer(p.iid)
                   /\ ret' = [kind |-> "state", id |-> p.sid,
                              phase |-> IF live THEN stateStore[p.iid].phase
                                        ELSE "completed"]
              ELSE /\ UNCHANGED <<activeTimers, persistenceTimers>>
                   /\ ret' = Void
    /\ UNCHANGED <<timerCount, uuidCount, now, dbVars, socketVars>>

\* The database write of a suspended persistState settles: on success
\* persistedAt is stamped on the state object the call captured (which is the
\* stored one unless the entry was replaced or deleted meanwhile); a failure is
\* logged and swallowed.  completeInterview then stops the timer and returns
\* the state it captured.
persistSettled(p, ok) ==
    /\ p \in pendingPersist
    /\ pendingPersist' = pendingPersist \ {p}
    /\ LET live == HasState(p.iid) /\ stateStore[p.iid].id = p.sid
       IN  /\ stateStore' =
                 IF ok /\ live
                 THEN StoreSet(p.iid, [stateStore[p.iid] EXCEPT !.persistedAt = Some(now)])
                 ELSE stateStore
           /\ IF p.caller = "complete"
              THEN /\ stopPersistenceTimer(p.iid)
                   /\ ret' = [kind |-> "state", id |-> p.sid,
                              phase |-> IF live THEN stateStore[p.iid].phase
                                        ELSE "completed"]
              ELSE /\ UNCHANGED <<activeTimers, persistenceTimers>>
                   /\ ret' = Void
    /\ UNCHANGED <<timerCount, uuidCount, now, dbVars, socketVars>>

deleteState(interviewId) ==
    /\ stopPersistenceTimer(interviewId)
    /\ stateStore' = [i \in DOMAIN stateStore \ {interviewId} |-> stateStore[i]]
    /\ ret' = Void
    /\ UNCHANGED <<pendingPersist, timerCount, uuidCount, now, dbVars, socketVars>>

\* the wall clock advances
Tick ==
    /\ now < MaxTicks * TickMs
    /\ now' = now + TickMs
    /\ UNCHANGED <<stateStore, timerVars, uuidCount, socketVars, dbVars, ret>>

-----------------------------------------------------------------------------
(* WebSocket handlers (socket.service.ts) *)

RoomSet(interviewId, members) ==
    [i \in DOMAIN interviewRooms \cup {interviewId} |->
        IF i = interviewId THEN members ELSE interviewRooms[i]]

\* interviewRooms.get(interviewId)?.size || 0
getConnectedClients(interviewId) ==
    IF interviewId \in DOMAIN interviewRooms
    THEN Cardinality(interviewRooms[interviewId]) ELSE 0

\* room.delete(socketId), and the entry is dropped when the room is empty
RoomRemove(interviewId, s) ==
    IF interviewId \notin DOMAIN interviewRooms THEN interviewRooms
    ELSE IF interviewRooms[interviewId] \ {s} = {}
         THEN [i \in DOMAIN interviewRooms \ {interviewId} |-> interviewRooms[i]]
         ELSE RoomSet(interviewId, interviewRooms[interviewId] \ {s})

Connected(s) == socketData[s].status = "connected"

\* io.on('connection'): a new socket, its data bag empty.  `rooms` is
\* socket.rooms of socket.io, kept as the interview ids of its `interview:`
\* rooms: socket.join adds one, socket.leave removes one, and the library
\* empties it when the socket disconnects.
connection(s) ==
    /\ socketData[s].status = "new"
    /\ socketData' = [socketData EXCEPT ![s] =
                         [status |-> "connected", interviewId |-> None, rooms |-> {}]]
    /\ UNCHANGED <<stateStore, timerVars, uuidCount, now, dbVars, interviewRooms, ret>>

handleJoinInterview(s, interviewId) ==
    /\ Connected(s)
    /\ interviewRooms' =
          RoomSet(interviewId,
                  (IF interviewId \in DOMAIN interviewRooms
                   THEN interviewRooms[interviewId] ELSE {}) \cup {s})
    /\ socketData' = [socketData EXCEPT ![s].interviewId = Some(interviewId),
                                        ![s].rooms = @ \cup {interviewId}]
    /\ UNCHANGED <<stateStore, timerVars, uuidCount, now, dbVars, ret>>

handleLeaveInterview(s, interviewId) ==
    /\ Connected(s)
    /\ socketData' = [socketData EXCEPT ![s].rooms = @ \ {interviewId}]
    /\ interviewRooms' = RoomRemove(interviewId, s)
    /\ UNCHANGED <<stateStore, timerVars, uuidCount, now, dbVars, ret>>

\* code.length
CodeLength(code) == Len(code)

handleCodeUpdate(s, code, language) ==
    /\ Connected(s)
    /\ IF ~IsSome(socketData[s].interviewId)
       THEN UNCHANGED stateStore
       ELSE LET interviewId == Get(socketData[s].interviewId)
                old == stateStore[interviewId]
                s1 == IF IsSome(old.codingState)
                      THEN ApplyCodingUpdate(old,
                              [code |-> Some(code), language |-> Some(language),
                               hintUsed |-> None, executionResult |-> None])
                      ELSE old
                s2 == ApplyCandidateSignals(s1,
                         [k \in {"isTyping", "lastCodeUpdate", "codeLength"} |->
                             CASE k = "isTyping" -> Some(TRUE)
                               [] k = "lastCodeUpdate" -> Some(now)
                               [] k = "codeLength" -> Some(CodeLength(code))])
            IN  stateStore' = IF HasState(interviewId)
                              THEN StoreSet(interviewId, s2) ELSE stateStore
    /\ UNCHANGED <<timerVars, uuidCount, now, dbVars, socketVars, ret>>

\* data: [expression, confidence, averageExpressions], the last one optional
handleExpressionUpdate(s, data) ==
    /\ Connected(s)
    /\ IF ~IsSome(socketData[s].interviewId)
       THEN UNCHANGED stateStore
       ELSE LET interviewId == Get(socketData[s].interviewId)
                signals ==
                  [k \in {"currentExpression", "expressionConfidence",
                          "averageExpressions"} |->
                      CASE k = "currentExpression" -> Some(data.expression)
                        [] k = "expressionConfidence" -> Some(data.confidence)
                        [] k = "averageExpressions" -> data.averageExpressions]
            IN  stateStore' =
                   IF HasState(interviewId)
                   THEN StoreSet(interviewId,
                                 ApplyCandidateSignals(stateStore[interviewId], signals))
                   ELSE stateStore
    /\ UNCHANGED <<timerVars, uuidCount, now, dbVars, socketVars, ret>>

handleDisconnect(s) ==
    /\ Connected(s)
    /\ socketData' = [socketData EXCEPT ![s].status = "disconnected", ![s].rooms = {}]
    /\ interviewRooms' =
          IF IsSome(socketData[s].interviewId)
          THEN RoomRemove(Get(socketData[s].interviewId), s)
          ELSE interviewRooms
    /\ UNCHANGED <<stateStore, timerVars, uuidCount, now, dbVars, ret>>

-----------------------------------------------------------------------------
(* Voice-platform tools: the routes of interactive-vapi.routes.ts, each the  *)
(* controller function together with the service function it awaits.  A     *)
(* request is a tool call (message.toolCallList is present), so isDirect is  *)
(* false.  `interviewId` is what extractInterviewId finds, None when the     *)
(* call carries no id anywhere.  Each action is the whole handler; the       *)
(* outcome of the database, the LLM and the sandbox is an input.  ret holds  *)
(* the HTTP response.                                                        *)

\* JSON.stringify of a result object: a string; of its fields the model keeps
\* `error`, which is in the string exactly when the object defines it
\* the payload {hintUsed: true}
HintUsed == [code |-> None, language |-> None, hintUsed |-> Some(TRUE),
             executionResult |-> None]

Stringify(error) == [isString |-> TRUE, error |-> error]

\* res.json(buildResponse(toolCallId, result)): status 200.  `failed` records
\* that the call hit a failure (no id, no state, no session, no problem, ...)
buildResponse(toolCallId, error, failed) ==
    [kind |-> "http", status |-> 200, failed |-> failed,
     body |-> [results |-> <<[toolCallId |-> toolCallId, result |-> Stringify(error)]>>]]

\* next(error): the error middleware answers {success: false, message} with
\* the status of the error
errorHandler(status) ==
    [kind |-> "http", status |-> status, failed |-> TRUE,
     body |-> [success |-> FALSE]]

\* the statuses the error middleware gives an exception
ErrorStatuses == {500}

Reply(response) ==
    /\ ret' = response
    /\ UNCHANGED <<stateStore, timerVars, uuidCount, now, dbVars, socketVars>>

initializeInterviewTool(toolCallId, hasUserId, interviewId, roundType, dbOk) ==
    IF ~hasUserId
    THEN Reply(buildResponse(toolCallId, Some("userId not found in call metadata"), TRUE))
    ELSE IF ~IsSome(interviewId)
    THEN Reply(buildResponse(toolCallId, Some("interviewId not found in call metadata"), TRUE))
    ELSE IF ~dbOk
    THEN \* the profile lookup throws inside the service's try: {success: false, error}
         Reply(buildResponse(toolCallId, Some("Failed to initialize interview"), TRUE))
    ELSE LET state == ApplySetPhase(NewInterviewState(roundType, 0), "introduction")
         IN  /\ uuidCount' = uuidCount + 1
             /\ stateStore' = StoreSet(Get(interviewId), state)
             /\ startPersistenceTimer(Get(interviewId))
             /\ ret' = buildResponse(toolCallId, None, FALSE)
             /\ UNCHANGED <<pendingPersist, now, dbVars, socketVars>>

\* category, difficulty and isFollowUp are what the question generator (the
\* LLM or its fallback) answers
getNextQuestionTool(toolCallId, interviewId, category, difficulty, isFollowUp) ==
    IF ~IsSome(interviewId)
    THEN Reply(buildResponse(toolCallId, Some("interviewId not found"), TRUE))
    ELSE IF ~HasState(Get(interviewId))
    THEN \* the service's `error` is not among the fields the controller copies
         Reply(buildResponse(toolCallId, None, TRUE))
    ELSE LET old == stateStore[Get(interviewId)]
             s1 == IF old.phase = "introduction" /\ old.performance.totalQuestions > 0
                   THEN ApplySetPhase(old, "main_questions")
                   ELSE old
             s2 == ApplyRecordQuestion(s1, NewQuestion(category, difficulty, isFollowUp))
         IN  /\ uuidCount' = uuidCount + 1
             /\ stateStore' = StoreSet(Get(interviewId), s2)
             /\ ret' = buildResponse(toolCallId, None, FALSE)
             /\ UNCHANGED <<timerVars, now, dbVars, socketVars>>

\* questionId: None when the call names no question; score and suggestFollowUp
\* are what the evaluator (the LLM or its fallback) answers
evaluateAnswerTool(toolCallId, interviewId, hasAnswer, questionId, score, suggestFollowUp) ==
    IF ~IsSome(interviewId)
    THEN Reply(buildResponse(toolCallId, Some("interviewId not found"), TRUE))
    ELSE IF ~hasAnswer
    THEN Reply(buildResponse(toolCallId, Some("answer is required"), TRUE))
    ELSE IF ~HasState(Get(interviewId))
    THEN Reply(buildResponse(toolCallId, None, TRUE))
    ELSE LET old == stateStore[Get(interviewId)]
             \* args.questionId || state.questions[state.currentQuestionIndex]?.id
             current == old.currentQuestionIndex + 1
             k == IF IsSome(questionId) THEN FindQuestion(old.questions, Get(questionId))
                  ELSE IF current \in 1..Len(old.questions)
                       THEN FindQuestion(old.questions, old.questions[current].id)
                       ELSE 0
         IN  IF k = 0
             THEN Reply(buildResponse(toolCallId, None, TRUE))
             ELSE /\ stateStore' = StoreSet(Get(interviewId),
                                            ApplyRecordAnswer(old, k, score,
                                                              Some(suggestFollowUp)))
                  /\ ret' = buildResponse(toolCallId, None, FALSE)
                  /\ UNCHANGED <<timerVars, uuidCount, now, dbVars, socketVars>>

getInterviewStateTool(toolCallId, interviewId) ==
    IF ~IsSome(interviewId)
    THEN Reply(buildResponse(toolCallId, Some("interviewId not found"), TRUE))
    ELSE IF ~HasState(Get(interviewId))
    THEN Reply(buildResponse(toolCallId, Some("Interview state not found"), TRUE))
    ELSE Reply(buildResponse(toolCallId, None, FALSE))

shouldWrapUpTool(toolCallId, interviewId) ==
    IF ~IsSome(interviewId) \/ ~HasState(Get(interviewId))
    THEN \* {shouldWrapUp: true, reason: '... not found'}
         Reply(buildResponse(toolCallId, None, TRUE))
    ELSE LET old == stateStore[Get(interviewId)]
         IN  /\ stateStore' = StoreSet(Get(interviewId),
                                       [old EXCEPT !.elapsedSeconds = ElapsedSeconds(old)])
             /\ ret' = buildResponse(toolCallId, None, FALSE)
             /\ UNCHANGED <<timerVars, uuidCount, now, dbVars, socketVars>>

\* db: "fails" when the codingProblem lookup rejects, "none" when it finds no
\* problem, "found" when it answers `problem`
presentCodingProblemTool(toolCallId, interviewId, db, problem, language) ==
    IF ~IsSome(interviewId)
    THEN Reply(buildResponse(toolCallId, Some("interviewId not found"), TRUE))
    ELSE IF ~HasState(Get(interviewId))
    THEN Reply(buildResponse(toolCallId, Some("Interview state not found"), TRUE))
    ELSE IF db = "fails"
    THEN \* the lookup is awaited outside any try: the controller's catch
         \* hands the exception to next()
         \E status \in ErrorStatuses : Reply(errorHandler(status))
    ELSE IF db = "none"
    THEN Reply(buildResponse(toolCallId, Some("Problem not found"), TRUE))
    ELSE LET old == stateStore[Get(interviewId)]
             s1 == ApplyInitializeCoding(old, problem, language)
             s2 == ApplySetPhase(s1, "coding_setup")
         IN  /\ stateStore' = StoreSet(Get(interviewId), s2)
             /\ ret' = buildResponse(toolCallId, None, FALSE)
             /\ UNCHANGED <<timerVars, uuidCount, now, dbVars, socketVars>>

checkCodeProgressTool(toolCallId, interviewId) ==
    IF ~IsSome(interviewId)
    THEN Reply(buildResponse(toolCallId, Some("interviewId not found"), TRUE))
    ELSE IF \/ ~HasState(Get(interviewId))
            \/ ~IsSome(stateStore[Get(interviewId)].codingState)
    THEN \* {hasCode: false, ..., feedback: 'No coding session active.'}
         Reply(buildResponse(toolCallId, None, TRUE))
    ELSE Reply(buildResponse(toolCallId, None, FALSE))

\* what executeWithTestCases answers for the tests' outcomes
TestRun(testResults) ==
    [success |-> \A k \in 1..Len(testResults) : testResults[k],
     testResults |-> Some(testResults)]

\* mutant: one passing test is enough to move to the review
executeCodeToolPromotesOnAnyPass(toolCallId, interviewId, code, language, db, testResults) ==
    IF ~IsSome(interviewId)
    THEN Reply(buildResponse(toolCallId, Some("interviewId not found"), TRUE))
    ELSE IF \/ ~HasState(Get(interviewId))
            \/ ~IsSome(stateStore[Get(interviewId)].codingState)
    THEN Reply(buildResponse(toolCallId, Some("No coding session active"), TRUE))
    ELSE IF db = "fails"
    THEN \E status \in ErrorStatuses : Reply(errorHandler(status))
    ELSE IF db = "none"
    THEN Reply(buildResponse(toolCallId, Some("Test cases not found"), TRUE))
    ELSE LET old == stateStore[Get(interviewId)]
             coding == Get(old.codingState)
             \* args.code || currentCode: an empty string counts as absent
             codeToExecute == IF IsSome(code) /\ Get(code) # "" THEN Get(code)
                              ELSE coding.currentCode
             lang == IF IsSome(language) THEN Get(language) ELSE coding.language
             result == TestRun(testResults)
             s1 == ApplyRecordSubmission(old, codeToExecute, lang, result)
             s2 == ApplyCodingUpdate(s1, [code |-> Some(codeToExecute),
                                          language |-> Some(lang),
                                          hintUsed |-> None,
                                          executionResult |-> Some(result)])
             passed == PassedCount(testResults)
             total == Len(testResults)
             allPassed == passed > 0
             s3 == IF allPassed THEN ApplySetPhase(s2, "coding_review") ELSE s2
         IN  /\ uuidCount' = uuidCount + 1
             /\ stateStore' = StoreSet(Get(interviewId), s3)
             /\ ret' = buildResponse(toolCallId, None, FALSE)
             /\ UNCHANGED <<timerVars, now, dbVars, socketVars>>

\* code, language: None when the call leaves them out; db: "fails" when the
\* codingProblem lookup rejects, "none" when there is no problem or it has no
\* test cases, "found" when the sandbox ran the tests with outcomes testResults
executeCodeTool(toolCallId, interviewId, code, language, db, testResults) ==
    IF ~IsSome(interviewId)
    THEN Reply(buildResponse(toolCallId, Some("interviewId not found"), TRUE))
    ELSE IF \/ ~HasState(Get(interviewId))
            \/ ~IsSome(stateStore[Get(interviewId)].codingState)
    THEN Reply(buildResponse(toolCallId, Some("No coding session active"), TRUE))
    ELSE IF db = "fails"
    THEN \E status \in ErrorStatuses : Reply(errorHandler(status))
    ELSE IF db = "none"
    THEN Reply(buildResponse(toolCallId, Some("Test cases not found"), TRUE))
    ELSE LET old == stateStore[Get(interviewId)]
             coding == Get(old.codingState)
             \* args.code || currentCode: an empty string counts as absent
             codeToExecute == IF IsSome(code) /\ Get(code) # "" THEN Get(code)
                              ELSE coding.currentCode
             lang == IF IsSome(language) THEN Get(language) ELSE coding.language
             result == TestRun(testResults)
             s1 == ApplyRecordSubmission(old, codeToExecute, lang, result)
             s2 == ApplyCodingUpdate(s1, [code |-> Some(codeToExecute),
                                          language |-> Some(lang),
                                          hintUsed |-> None,
                                          executionResult |-> Some(result)])
             passed == PassedCount(testResults)
             total == Len(testResults)
             allPassed == passed = total /\ total > 0
             s3 == IF allPassed THEN ApplySetPhase(s2, "coding_review") ELSE s2
         IN  /\ uuidCount' = uuidCount + 1
             /\ stateStore' = StoreSet(Get(interviewId), s3)
             /\ ret' = buildResponse(toolCallId, None, FALSE)
             /\ UNCHANGED <<timerVars, now, dbVars, socketVars>>

\* what the service's getCodingHint returns
HintReply(hint, hintsRemaining) ==
    [kind |-> "hint", hint |-> hint, hintsRemaining |-> hintsRemaining]

NoActiveProblem == HintReply("No coding problem is currently active.", 0)
NoMoreHints == HintReply("No more hints available.", 0)

\* mutant: the hints left are counted before the one handed out
getCodingHintCountsBefore(interviewId) ==
    IF ~HasState(interviewId) \/ ~IsSome(stateStore[interviewId].codingState)
    THEN /\ ret' = NoActiveProblem
         /\ UNCHANGED <<stateStore, timerVars, uuidCount, now, dbVars, socketVars>>
    ELSE LET old == stateStore[interviewId]
             coding == Get(old.codingState)
             hintsAvailable == coding.hintsAvailable
             hintsUsed == coding.hintsUsed
         IN  IF hintsUsed >= Len(hintsAvailable)
             THEN /\ ret' = NoMoreHints
                  /\ UNCHANGED <<stateStore, timerVars, uuidCount, now, dbVars, socketVars>>
             ELSE /\ stateStore' = StoreSet(interviewId, ApplyCodingUpdate(old, HintUsed))
                  /\ ret' = HintReply(hintsAvailable[hintsUsed + 1],
                                      Len(hintsAvailable) - hintsUsed)
                  /\ UNCHANGED <<timerVars, uuidCount, now, dbVars, socketVars>>

\* the service function behind the getCodingHint tool (it awaits nothing)
getCodingHint(interviewId) ==
    IF ~HasState(interviewId) \/ ~IsSome(stateStore[interviewId].codingState)
    THEN /\ ret' = NoActiveProblem
         /\ UNCHANGED <<stateStore, timerVars, uuidCount, now, dbVars, socketVars>>
    ELSE LET old == stateStore[interviewId]
             coding == Get(old.codingState)
             hintsAvailable == coding.hintsAvailable
             hintsUsed == coding.hintsUsed
         IN  IF hintsUsed >= Len(hintsAvailable)
             THEN /\ ret' = NoMoreHints
                  /\ UNCHANGED <<stateStore, timerVars, uuidCount, now, dbVars, socketVars>>
             ELSE /\ stateStore' = StoreSet(interviewId, ApplyCodingUpdate(old, HintUsed))
                  /\ ret' = HintReply(hintsAvailable[hintsUsed + 1],
                                      Len(hintsAvailable) - hintsUsed - 1)
                  /\ UNCHANGED <<timerVars, uuidCount, now, dbVars, socketVars>>

getCodingHintTool(toolCallId, interviewId) ==
    IF ~IsSome(interviewId)
    THEN Reply(buildResponse(toolCallId, Some("interviewId not found"), TRUE))
    ELSE IF \/ ~HasState(Get(interviewId))
            \/ ~IsSome(stateStore[Get(interviewId)].codingState)
    THEN \* {hint: 'No coding problem is currently active.', hintsRemaining: 0}
         Reply(buildResponse(toolCallId, None, TRUE))
    ELSE LET old == stateStore[Get(interviewId)]
             coding == Get(old.codingState)
         IN  IF coding.hintsUsed >= Len(coding.hintsAvailable)
             THEN Reply(buildResponse(toolCallId, None, FALSE))
             ELSE /\ stateStore' =
                        StoreSet(Get(interviewId),
                                 ApplyCodingUpdate(old, [code |-> None, language |-> None,
                                                         hintUsed |-> Some(TRUE),
                                                         executionResult |-> None]))
                  /\ ret' = buildResponse(toolCallId, None, FALSE)
                  /\ UNCHANGED <<timerVars, uuidCount, now, dbVars, socketVars>>

\* the handler through the await of the state service's completeInterview:
\* the write of persistState succeeds (ok) or fails, then the timer is stopped
completeInterviewTool(toolCallId, interviewId, ok) ==
    IF ~IsSome(interviewId)
    THEN Reply(buildResponse(toolCallId, Some("interviewId not found"), TRUE))
    ELSE IF ~HasState(Get(interviewId))
    THEN \* {completed: false, summary: null, farewell}
         Reply(buildResponse(toolCallId, None, TRUE))
    ELSE LET old == stateStore[Get(interviewId)]
             s1 == [old EXCEPT
                      !.phase = "completed",
                      !.updatedAt = now,
                      !.elapsedSeconds = ElapsedSeconds(old)]
             s2 == IF ok THEN [s1 EXCEPT !.persistedAt = Some(now)] ELSE s1
         IN  /\ stateStore' = StoreSet(Get(interviewId), s2)
             /\ stopPersistenceTimer(Get(interviewId))
             /\ ret' = buildResponse(toolCallId, None, FALSE)
             /\ UNCHANGED <<pendingPersist, timerCount, uuidCount, now, dbVars, socketVars>>

-----------------------------------------------------------------------------
(* Retry helper (retry.util.ts).  fn is given by the outcomes of its       *)
(* successive invocations: "ok", "transient" (shouldRetry accepts the error) *)
(* or "fatal" (it does not).  The value or the error of an invocation        *)
(* carries the number of the invocation that produced it.  random is         *)
(* Math.random() in eighths.                                                 *)

DEFAULT_CONFIG == [maxRetries |-> 3, baseDelayMs |-> 2000, maxDelayMs |-> 30000]

RECURSIVE Pow2(_)
Pow2(n) == IF n = 0 THEN 1 ELSE 2 * Pow2(n - 1)

Min(a, b) == IF a <= b THEN a ELSE b

\* cappedDelay + cappedDelay * 0.25 * Math.random()
calculateDelay(attempt, config, random) ==
    LET exponentialDelay == config.baseDelayMs * Pow2(attempt)
        cappedDelay == Min(exponentialDelay, config.maxDelayMs)
    IN  cappedDelay + (cappedDelay * random) \div 32

shouldRetry(error) == error.outcome = "transient"

\* the for loop of withRetry from `attempt` on; sleeps are the delays slept so
\* far, each with the invocation it followed
RECURSIVE RetryLoop(_, _, _, _, _, _)
RetryLoop(outcomes, config, random, attempt, sleeps, lastError) ==
    IF attempt >= config.maxRetries
    THEN [status |-> "rejected", calls |-> attempt, sleeps |-> sleeps, value |-> None,
          error |-> lastError]
    ELSE IF outcomes[attempt + 1] = "ok"
    THEN [status |-> "resolved", calls |-> attempt + 1, sleeps |-> sleeps,
          value |-> Some(attempt + 1), error |-> None]
    ELSE LET error == [call |-> attempt + 1, outcome |-> outcomes[attempt + 1]]
         IN  IF shouldRetry(error) /\ attempt < config.maxRetries - 1
             THEN RetryLoop(outcomes, config, random, attempt + 1,
                            Append(sleeps, [after |-> attempt + 1,
                                            ms |-> calculateDelay(attempt, config, random)]),
                            Some(error))
             ELSE [status |-> "rejected", calls |-> attempt + 1, sleeps |-> sleeps,
                   value |-> None, error |-> Some(error)]

\* mutant: the last attempt is followed by one more
withRetryExtraAttempt(outcomes, maxRetries, random) ==
    RetryLoop(outcomes, [DEFAULT_CONFIG EXCEPT !.maxRetries = maxRetries + 1],
              random, 0, <<>>, None)

withRetry(outcomes, maxRetries, random) ==
    RetryLoop(outcomes, [DEFAULT_CONFIG EXCEPT !.maxRetries = maxRetries],
              random, 0, <<>>, None)

\* fallback is a value (or a function returning one)
withRetryAndFallback(outcomes, fallback, maxRetries, random) ==
    LET run == withRetry(outcomes, maxRetries, random)
    IN  IF run.status = "rejected"
        THEN [run EXCEPT !.status = "resolved", !.value = Some(fallback), !.error = None]
        ELSE run

\* one call of each, on the same fn
RunRetry(outcomes, maxRetries, random) ==
    /\ ret' = [kind |-> "retry", outcomes |-> outcomes, maxRetries |-> maxRetries,
               run |-> withRetry(outcomes, maxRetries, random),
               withFallback |-> withRetryAndFallback(outcomes, 0, maxRetries, random)]
    /\ UNCHANGED <<stateStore, timerVars, uuidCount, now, dbVars, socketVars>>

-----------------------------------------------------------------------------
(* Answer evaluator (AnswerEvaluatorAgent).  The LLM is given by the        *)
(* outcomes of its successive calls: "ok" (a JSON object came back),         *)
(* "rateLimit" (isRateLimitError accepts the error) or "error" (any other    *)
(* error of generateContent or of JSON.parse).  rawScore is parsed.score:    *)
(* None when it is missing or not a number, else an integer.                 *)

MAX_RETRIES == 3

\* Math.max(1, Math.min(10, Math.round(num))), 5 for NaN
normalizeScore(rawScore) ==
    IF ~IsSome(rawScore) THEN 5 ELSE Max(1, Min(10, Get(rawScore)))

getFallbackEvaluation(answerLength) ==
    LET score == IF answerLength < 50 THEN 4
                 ELSE IF answerLength < 150 THEN 5
                 ELSE IF answerLength < 500 THEN 6
                 ELSE 7
    IN  [score |-> score, suggestFollowUp |-> answerLength < 100, fallback |-> TRUE]

RECURSIVE EvaluateLoop(_, _, _, _, _)
\* mutant: any error is retried
EvaluateLoopRetriesAll(outcomes, rawScore, parsedFollowUp, answerLength, attempt) ==
    IF attempt >= MAX_RETRIES
    THEN [getFallbackEvaluation(answerLength) EXCEPT !.fallback = attempt]
    ELSE IF outcomes[attempt + 1] = "ok"
    THEN [score |-> normalizeScore(rawScore), suggestFollowUp |-> parsedFollowUp,
          fallback |-> attempt + 1]
    ELSE EvaluateLoop(outcomes, rawScore, parsedFollowUp, answerLength, attempt + 1)

\* the for loop of evaluate from `attempt` on, and the fallback behind it;
\* the result carries the number of LLM calls made in place of `fallback`
EvaluateLoop(outcomes, rawScore, parsedFollowUp, answerLength, attempt) ==
    IF attempt >= MAX_RETRIES
    THEN [getFallbackEvaluation(answerLength) EXCEPT !.fallback = attempt]
    ELSE IF outcomes[attempt + 1] = "ok"
    THEN [score |-> normalizeScore(rawScore), suggestFollowUp |-> parsedFollowUp,
          fallback |-> attempt + 1]
    ELSE IF outcomes[attempt + 1] = "rateLimit" /\ attempt < MAX_RETRIES - 1
    THEN EvaluateLoop(outcomes, rawScore, parsedFollowUp, answerLength, attempt + 1)
    ELSE [getFallbackEvaluation(answerLength) EXCEPT !.fallback = attempt + 1]

\* [score, suggestFollowUp, attempts, fallback]
evaluate(outcomes, rawScore, parsedFollowUp, answerLength) ==
    LET e == EvaluateLoop(outcomes, rawScore, parsedFollowUp, answerLength, 0)
    IN  [score |-> e.score, suggestFollowUp |-> e.suggestFollowUp,
         attempts |-> e.fallback,
         fallback |-> e.fallback = 0 \/ outcomes[e.fallback] # "ok"]

-----------------------------------------------------------------------------
(* Session service (session.service.ts): interview sessions made of rounds, *)
(* kept in the database tables interviewSession and interviewRound.  One    *)
(* user owns every session, so the userId filter of the queries is left     *)
(* out.  The id of the round of order k in session s is <<s, k>>.           *)
(* `prerequisitesEnabled` is what isPrerequisitesEnabled reads from the     *)
(* user's settings.                                                         *)

SessionIds == {"S1"}

\* DEFAULT_ROUND_CONFIGS: the round types with isRequired
RequiredRounds == {"BEHAVIORAL", "TECHNICAL", "CODING"}

\* throw new Error(message)
Throws(message) == [kind |-> "error", message |-> message]

\* session.rounds of a query with include: {rounds: {orderBy: {order: 'asc'}}}
RoundsOf(sessionId) ==
    LET ids == {r \in DOMAIN interviewRound : interviewRound[r].sessionId = sessionId}
    IN  [k \in 1..Cardinality(ids) |->
            LET r == CHOOSE r \in ids : interviewRound[r].order = k
            IN  [id |-> r, order |-> k, roundType |-> interviewRound[r].roundType,
                 status |-> interviewRound[r].status,
                 isLocked |-> interviewRound[r].isLocked]]

\* formatSessionResponse(session) of getSession
getSession(sessions, rounds, sessionId) ==
    [kind |-> "session", id |-> sessionId, status |-> sessions[sessionId].status,
     currentRound |-> sessions[sessionId].currentRound,
     rounds |-> {[id |-> r, status |-> rounds[r].status, isLocked |-> rounds[r].isLocked] :
                    r \in {x \in DOMAIN rounds : rounds[x].sessionId = sessionId}}]

\* createSession with payload.rounds = roundTypes (valid and not empty)
createSession(sessionId, roundTypes, prerequisitesEnabled) ==
    /\ sessionId \notin DOMAIN interviewSession
    /\ interviewSession' =
          [s \in DOMAIN interviewSession \cup {sessionId} |->
              IF s = sessionId
              THEN [status |-> "IN_PROGRESS", currentRound |-> 1,
                    totalRounds |-> Len(roundTypes)]
              ELSE interviewSession[s]]
    /\ interviewRound' =
          [r \in DOMAIN interviewRound \cup {<<sessionId, k>> : k \in 1..Len(roundTypes)} |->
              IF r \in DOMAIN interviewRound THEN interviewRound[r]
              ELSE [sessionId |-> sessionId, roundType |-> roundTypes[r[2]],
                    order |-> r[2], status |-> "NOT_STARTED",
                    isLocked |-> IF prerequisitesEnabled THEN r[2] > 1 ELSE FALSE]]
    /\ ret' = getSession(interviewSession', interviewRound', sessionId)
    /\ UNCHANGED <<stateStore, timerVars, uuidCount, now, socketVars, pendingCalls>>

\* startRound with payload {sessionId, roundId}
startRound(sessionId, roundId, prerequisitesEnabled) ==
    /\ IF sessionId \notin DOMAIN interviewSession
       THEN /\ ret' = Throws("Session not found")
            /\ UNCHANGED <<interviewSession, interviewRound>>
       ELSE IF roundId \notin DOMAIN interviewRound
               \/ interviewRound[roundId].sessionId # sessionId
       THEN /\ ret' = Throws("Round not found")
            /\ UNCHANGED <<interviewSession, interviewRound>>
       ELSE IF prerequisitesEnabled /\ interviewRound[roundId].isLocked
       THEN /\ ret' = Throws("Round is locked. Complete previous rounds first.")
            /\ UNCHANGED <<interviewSession, interviewRound>>
       ELSE IF interviewRound[roundId].status \notin {"NOT_STARTED", "IN_PROGRESS"}
       THEN /\ ret' = Throws("Round has already been completed")
            /\ UNCHANGED <<interviewSession, interviewRound>>
       ELSE /\ interviewRound' = [interviewRound EXCEPT ![roundId].status = "IN_PROGRESS"]
            /\ interviewSession' =
                  [interviewSession EXCEPT
                      ![sessionId].currentRound = interviewRound[roundId].order]
            /\ ret' = [kind |-> "round", id |-> roundId, status |-> "IN_PROGRESS"]
    /\ UNCHANGED <<stateStore, timerVars, uuidCount, now, socketVars, pendingCalls>>

\* completeRound up to its first write: the session is read with its rounds,
\* and the call keeps that copy (`session.rounds`) and the round it found.
\* One call per round is in flight at a time.
completeRoundBegin(sessionId, roundId) ==
    /\ IF sessionId \notin DOMAIN interviewSession
       THEN /\ ret' = Throws("Session not found")
            /\ UNCHANGED pendingCalls
       ELSE IF ~\E k \in DOMAIN RoundsOf(sessionId) : RoundsOf(sessionId)[k].id = roundId
       THEN /\ ret' = Throws("Round not found")
            /\ UNCHANGED pendingCalls
       ELSE /\ [op |-> "completeRound", sessionId |-> sessionId, roundId |-> roundId]
                  \notin {[op |-> c.op, sessionId |-> c.sessionId, roundId |-> c.roundId] :
                             c \in pendingCalls}
            /\ pendingCalls' = pendingCalls \cup
                  {[op |-> "completeRound", sessionId |-> sessionId, roundId |-> roundId,
                    rounds |-> RoundsOf(sessionId), pc |-> "updateRound"]}
            /\ ret' = [kind |-> "pending"]
    /\ UNCHANGED <<stateStore, timerVars, uuidCount, now, socketVars,
                   interviewSession, interviewRound>>

\* the round of the copy with the given id
RoundIn(rounds, roundId) == rounds[CHOOSE k \in DOMAIN rounds : rounds[k].id = roundId]

\* db.interviewRound.update: status COMPLETED
CompleteUpdateRound(rounds, call) ==
    [rounds EXCEPT ![call.roundId].status = "COMPLETED"]

\* session.rounds.find(r => r.order === round.order + 1), unlocked when found
CompleteUnlockNext(rounds, call) ==
    LET order == RoundIn(call.rounds, call.roundId).order
    IN  IF order + 1 \in DOMAIN call.rounds
        THEN [rounds EXCEPT ![call.rounds[order + 1].id].isLocked = FALSE]
        ELSE rounds

\* session.rounds.every(r => r.id === round.id || r.status === COMPLETED)
allCompleted(call) ==
    \A k \in DOMAIN call.rounds :
       call.rounds[k].id = call.roundId \/ call.rounds[k].status = "COMPLETED"

\* db.interviewSession.update when allCompleted
CompleteSession(sessions, call) ==
    IF allCompleted(call)
    THEN [sessions EXCEPT ![call.sessionId].status = "COMPLETED"]
    ELSE sessions

\* completeRound resumed after an await: one database write each time, and
\* the answer of getSession with the last one
completeRoundStep(call) ==
    /\ call \in pendingCalls
    /\ call.op = "completeRound"
    /\ CASE call.pc = "updateRound" ->
              /\ interviewRound' = CompleteUpdateRound(interviewRound, call)
              /\ pendingCalls' = (pendingCalls \ {call}) \cup {[call EXCEPT !.pc = "unlockNext"]}
              /\ UNCHANGED <<interviewSession, ret>>
         [] call.pc = "unlockNext" ->
              /\ interviewRound' = CompleteUnlockNext(interviewRound, call)
              /\ pendingCalls' = (pendingCalls \ {call}) \cup {[call EXCEPT !.pc = "finish"]}
              /\ UNCHANGED <<interviewSession, ret>>
         [] call.pc = "finish" ->
              /\ interviewSession' = CompleteSession(interviewSession, call)
              /\ pendingCalls' = pendingCalls \ {call}
              /\ ret' = getSession(interviewSession', interviewRound, call.sessionId)
              /\ UNCHANGED interviewRound
    /\ UNCHANGED <<stateStore, timerVars, uuidCount, now, socketVars>>

\* completeRound with no other call running between its awaits
completeRound(sessionId, roundId) ==
    /\ pendingCalls = {}
    /\ IF sessionId \notin DOMAIN interviewSession
       THEN /\ ret' = Throws("Session not found")
            /\ UNCHANGED <<interviewSession, interviewRound>>
       ELSE IF ~\E k \in DOMAIN RoundsOf(sessionId) : RoundsOf(sessionId)[k].id = roundId
       THEN /\ ret' = Throws("Round not found")
            /\ UNCHANGED <<interviewSession, interviewRound>>
       ELSE LET call == [op |-> "completeRound", sessionId |-> sessionId,
                         roundId |-> roundId, rounds |-> RoundsOf(sessionId),
                         pc |-> "updateRound"]
            IN  /\ interviewRound' =
                      CompleteUnlockNext(CompleteUpdateRound(interviewRound, call), call)
                /\ interviewSession' = CompleteSession(interviewSession, call)
                /\ ret' = getSession(interviewSession', interviewRound', sessionId)
    /\ UNCHANGED <<stateStore, timerVars, uuidCount, now, socketVars, pendingCalls>>

\* skipRound(userId, sessionId, roundId)
skipRound(sessionId, roundId) ==
    /\ IF sessionId \notin DOMAIN interviewSession
       THEN /\ ret' = Throws("Session not found")
            /\ UNCHANGED interviewRound
       ELSE IF ~\E k \in DOMAIN RoundsOf(sessionId) : RoundsOf(sessionId)[k].id = roundId
       THEN /\ ret' = Throws("Round not found")
            /\ UNCHANGED interviewRound
       ELSE IF interviewRound[roundId].roundType \in RequiredRounds
       THEN /\ ret' = Throws("This round is required and cannot be skipped")
            /\ UNCHANGED interviewRound
       ELSE LET call == [sessionId |-> sessionId, roundId |-> roundId,
                         rounds |-> RoundsOf(sessionId)]
            IN  /\ interviewRound' =
                      CompleteUnlockNext(
                         [interviewRound EXCEPT ![roundId].status = "SKIPPED"], call)
                /\ ret' = getSession(interviewSession, interviewRound', sessionId)
    /\ UNCHANGED <<stateStore, timerVars, uuidCount, now, socketVars,
                   interviewSession, pendingCalls>>

-----------------------------------------------------------------------------
(* evaluateAnswer of interactive-vapi.service.ts as the two halves its one  *)
(* await (answerEvaluator.evaluate) cuts it into.  `callId` tells the       *)
(* invocations in flight apart.                                             *)

\* the result objects, of which the model keeps score, suggestFollowUp, error
Evaluation(score, suggestFollowUp, error) ==
    [kind |-> "evaluation", score |-> score, suggestFollowUp |-> suggestFollowUp,
     error |-> error]

\* up to the await: the state and the question are looked up, and the call
\* keeps `question`
evaluateAnswerBegin(callId, interviewId, questionId) ==
    /\ \A c \in pendingCalls : c.op = "evaluateAnswer" => c.callId # callId
    /\ IF ~HasState(interviewId)
       THEN /\ ret' = Evaluation(5, FALSE, Some("Interview state not found"))
            /\ UNCHANGED pendingCalls
       ELSE LET old == stateStore[interviewId]
                \* args.questionId || state.questions[state.currentQuestionIndex]?.id
                current == old.currentQuestionIndex + 1
                k == IF IsSome(questionId) THEN FindQuestion(old.questions, Get(questionId))
                     ELSE IF current \in 1..Len(old.questions)
                          THEN FindQuestion(old.questions, old.questions[current].id)
                          ELSE 0
            IN  IF k = 0
                THEN /\ ret' = Evaluation(5, FALSE, Some("Question not found"))
                     /\ UNCHANGED pendingCalls
                ELSE /\ pendingCalls' = pendingCalls \cup
                           {[op |-> "evaluateAnswer", callId |-> callId,
                             interviewId |-> interviewId,
                             questionId |-> old.questions[k].id]}
                     /\ ret' = [kind |-> "pending"]
    /\ UNCHANGED <<stateStore, timerVars, uuidCount, now, socketVars,
                   interviewSession, interviewRound>>

\* the state after recordAnswer(interviewId, {questionId, score, ...})
RecordedAnswer(interviewId, questionId, score, suggestFollowUp) ==
    IF ~HasState(interviewId) THEN stateStore
    ELSE LET old == stateStore[interviewId]
             k == FindQuestion(old.questions, questionId)
         IN  IF k = 0 THEN stateStore
             ELSE StoreSet(interviewId,
                           ApplyRecordAnswer(old, k, score, Some(suggestFollowUp)))

\* mutant: the answer goes to the question that is current when the
\* evaluation arrives
evaluateAnswerEndOnCurrent(call, score, suggestFollowUp) ==
    /\ call \in pendingCalls
    /\ call.op = "evaluateAnswer"
    /\ LET old == stateStore[call.interviewId]
       IN  stateStore' = RecordedAnswer(call.interviewId,
                                        old.questions[old.currentQuestionIndex + 1].id,
                                        score, suggestFollowUp)
    /\ pendingCalls' = pendingCalls \ {call}
    /\ ret' = Evaluation(score, suggestFollowUp, None)
    /\ UNCHANGED <<timerVars, uuidCount, now, socketVars, interviewSession, interviewRound>>

\* after the await: score and suggestFollowUp are what the evaluator answered
evaluateAnswerEnd(call, score, suggestFollowUp) ==
    /\ call \in pendingCalls
    /\ call.op = "evaluateAnswer"
    /\ stateStore' = RecordedAnswer(call.interviewId, call.questionId, score,
                                    suggestFollowUp)
    /\ pendingCalls' = pendingCalls \ {call}
    /\ ret' = Evaluation(score, suggestFollowUp, None)
    /\ UNCHANGED <<timerVars, uuidCount, now, socketVars, interviewSession, interviewRound>>

-----------------------------------------------------------------------------
(* Initial state: the process has just started *)

Init ==
    /\ stateStore = EmptyMap
    /\ persistenceTimers = EmptyMap
    /\ activeTimers = {}
    /\ pendingPersist = {}
    /\ uuidCount = 0
    /\ timerCount = 0
    /\ now = 0
    /\ socketData = [s \in SocketIds |->
                        [status |-> "new", interviewId |-> None, rooms |-> {}]]
    /\ interviewRooms = EmptyMap
    /\ interviewSession = EmptyMap
    /\ interviewRound = EmptyMap
    /\ pendingCalls = {}
    /\ ret = Void

-----------------------------------------------------------------------------
(* Spec: question/answer recording on one interview.  The interview "i1" is  *)
(* initialized once, questions are asked and answers scored in any order;    *)
(* an answer may target any id: one that is in no log, or a question that    *)
(* already has a score.                                                      *)

Log(interviewId) == stateStore[interviewId].questions
Perf(interviewId) == stateStore[interviewId].performance

AskedCategories == {"technical_concept", "behavioral"}
AnswerScores == {2, 6, 8}
QuestionIds == 1..(MaxQuestions + 2)

Initialize ==
    /\ ~HasState("i1")
    /\ createInterviewState("i1", "TECHNICAL", 0)

AskQuestion ==
    /\ HasState("i1")
    /\ Len(Log("i1")) < MaxQuestions
    /\ \E category \in AskedCategories, isFollowUp \in BOOLEAN :
          recordQuestion("i1", category, "MEDIUM", isFollowUp)

ScoreAnswer ==
    /\ HasState("i1")
    /\ Perf("i1").answeredQuestions < MaxAnswers
    /\ \E questionId \in QuestionIds, score \in AnswerScores :
          recordAnswer("i1", questionId, score, None)

Next == Initialize \/ AskQuestion \/ ScoreAnswer

Spec == Init /\ [][Next]_vars

-----------------------------------------------------------------------------
(* SpecDifficulty: the rolling window, the trend and the difficulty rule     *)
(* table.  One category; every answer targets a question of the log, and a   *)
(* question may be answered again.                                           *)

TrendScores == {2, 8, 10}

TrendInitialize ==
    /\ ~HasState("i1")
    /\ createInterviewState("i1", "TECHNICAL", 0)

TrendAskQuestion ==
    /\ HasState("i1")
    /\ Len(Log("i1")) < MaxTrendQuestions
    /\ recordQuestion("i1", "technical_concept", "MEDIUM", FALSE)

TrendScoreAnswer ==
    /\ HasState("i1")
    /\ Perf("i1").answeredQuestions < MaxTrendAnswers
    /\ \E k \in 1..Len(Log("i1")), score \in TrendScores :
          recordAnswer("i1", Log("i1")[k].id, score, None)

NextDifficulty == TrendInitialize \/ TrendAskQuestion \/ TrendScoreAnswer

SpecDifficulty == Init /\ [][NextDifficulty]_vars

-----------------------------------------------------------------------------
(* SpecTopics: topic coverage over all nine categories and the snapshot      *)
(* projection, for an id that has a state and one that has none.             *)

TopicInitialize ==
    /\ ~HasState("i1")
    /\ createInterviewState("i1", "BEHAVIORAL", 0)

TopicAskQuestion ==
    /\ HasState("i1")
    /\ Len(Log("i1")) < MaxTopicQuestions
    /\ \E category \in QuestionCategories :
          recordQuestion("i1", category, "MEDIUM", FALSE)

TopicScoreAnswer ==
    /\ HasState("i1")
    /\ Perf("i1").answeredQuestions < MaxTopicAnswers
    /\ \E k \in 1..Len(Log("i1")) : recordAnswer("i1", Log("i1")[k].id, 8, None)

TopicSnapshot == \E interviewId \in InterviewIds : getStateSnapshot(interviewId)

NextTopics == TopicInitialize \/ TopicAskQuestion \/ TopicScoreAnswer \/ TopicSnapshot

SpecTopics == Init /\ [][NextTopics]_vars

-----------------------------------------------------------------------------
(* SpecWrap: the wrap-up policy.  Every round type with its default          *)
(* duration, and a BEHAVIORAL round of one minute; the clock advances and    *)
(* the elapsed time is refreshed on demand.  An answer is for the latest     *)
(* question.                                                                 *)

WrapScores == {4, 5, 9}
\* the default duration, and for a BEHAVIORAL round also one minute
WrapDurations(roundType) == IF roundType = "BEHAVIORAL" THEN {0, 1} ELSE {0}

WrapInitialize ==
    /\ ~HasState("i1")
    /\ \E roundType \in RoundTypes :
          \E est \in WrapDurations(roundType) :
             createInterviewState("i1", roundType, est)

WrapAskQuestion ==
    /\ HasState("i1")
    /\ Len(Log("i1")) < MaxWrapQuestions
    /\ recordQuestion("i1", "behavioral", "MEDIUM", FALSE)

WrapScoreAnswer ==
    /\ HasState("i1")
    /\ Perf("i1").answeredQuestions < MaxWrapAnswers
    /\ Len(Log("i1")) > 0
    /\ \E score \in WrapScores :
          recordAnswer("i1", Log("i1")[Len(Log("i1"))].id, score, None)

WrapUpdateElapsed == HasState("i1") /\ updateElapsedTime("i1")

NextWrap == WrapInitialize \/ WrapAskQuestion \/ WrapScoreAnswer \/ WrapUpdateElapsed \/ Tick

SpecWrap == Init /\ [][NextWrap]_vars

-----------------------------------------------------------------------------
(* SpecLifecycle: every mutator of the service on one interview of a CODING  *)
(* round (one question suffices to wrap up), in any order, the database      *)
(* write of completeInterview succeeding or failing.  The calls follow each  *)
(* other within one clock reading; SpecWrap lets the clock advance.          *)

LifeScores == {3, 7}
LifePhases == {"main_questions", "wrap_up"}

\* a coding problem as initializeCodingState receives it
Problem1 == [id |-> "p1", starterCode |-> "", hints |-> <<"h1", "h2">>, testCases |-> 2]

NoPayload == [code |-> None, language |-> None, hintUsed |-> None,
              executionResult |-> None]
HintOnly == [NoPayload EXCEPT !.hintUsed = Some(TRUE)]

\* an execution in which the first of two tests passed
OnePassed == [success |-> FALSE, testResults |-> Some(<<TRUE, FALSE>>)]

LongPause == [k \in {"longPauseDetected"} |-> Some(TRUE)]

Coding(interviewId) == Get(stateStore[interviewId].codingState)
HasCoding(interviewId) ==
    HasState(interviewId) /\ IsSome(stateStore[interviewId].codingState)

LifeInitialize ==
    /\ ~HasState("i1")
    /\ createInterviewState("i1", "CODING", 0)

LifeSetPhase == HasState("i1") /\ \E phase \in LifePhases : setPhase("i1", phase)

LifeAskQuestion ==
    /\ HasState("i1")
    /\ Len(Log("i1")) < MaxLifeQuestions
    /\ recordQuestion("i1", "coding", "MEDIUM", FALSE)

LifeScoreAnswer ==
    /\ HasState("i1")
    /\ Perf("i1").answeredQuestions < MaxLifeAnswers
    /\ Len(Log("i1")) > 0
    /\ \E score \in LifeScores :
          recordAnswer("i1", Log("i1")[Len(Log("i1"))].id, score, None)

LifeSignals == HasState("i1") /\ updateCandidateSignals("i1", LongPause)

LifeInitCoding ==
    /\ HasState("i1")
    /\ ~HasCoding("i1")
    /\ initializeCodingState("i1", Problem1, "javascript")

LifeUpdateCoding ==
    /\ HasCoding("i1")
    /\ Coding("i1").hintsUsed < MaxLifeHints
    /\ updateCodingState("i1", HintOnly)

LifeSubmit ==
    /\ HasCoding("i1")
    /\ Len(Coding("i1").submissions) < MaxLifeSubmissions
    /\ recordCodeSubmission("i1", "x", "javascript", OnePassed)

LifeUpdateElapsed == HasState("i1") /\ updateElapsedTime("i1")

LifeComplete == HasState("i1") /\ completeInterview("i1")

LifePersistSettled == \E p \in pendingPersist, ok \in BOOLEAN : persistSettled(p, ok)

NextLifecycle ==
    \/ LifeInitialize \/ LifeSetPhase \/ LifeAskQuestion \/ LifeScoreAnswer
    \/ LifeSignals \/ LifeInitCoding \/ LifeUpdateCoding \/ LifeSubmit
    \/ LifeUpdateElapsed \/ LifeComplete \/ LifePersistSettled

SpecLifecycle == Init /\ [][NextLifecycle]_vars

-----------------------------------------------------------------------------
(* SpecCoding: the coding sub-state of one interview: a problem is           *)
(* presented (and may be presented again), the code, the language, the hint  *)
(* counter and the execution result are updated by partial payloads, runs    *)
(* are submitted, and the clock advances.                                    *)

\* a problem without starter code for the language, hints or test cases
Problem2 == [id |-> "p2", starterCode |-> "s", hints |-> <<>>, testCases |-> 0]

\* an execution that produced no per-test results
NoTests == [success |-> TRUE, testResults |-> None]

CodingPayloads ==
    {HintOnly,
     [NoPayload EXCEPT !.code = Some("ab")],
     [NoPayload EXCEPT !.language = Some("python")],
     [NoPayload EXCEPT !.executionResult = Some(OnePassed)],
     [NoPayload EXCEPT !.executionResult = Some(NoTests)],
     [NoPayload EXCEPT !.code = Some(""), !.hintUsed = Some(FALSE)]}

CodingInitialize ==
    /\ ~HasState("i1")
    /\ createInterviewState("i1", "CODING", 0)

CodingPresent ==
    /\ HasState("i1")
    /\ \E problem \in {Problem1, Problem2} :
          initializeCodingState("i1", problem, "javascript")

CodingUpdate ==
    /\ HasCoding("i1")
    /\ \E payload \in CodingPayloads :
          /\ payload.hintUsed = Some(TRUE) => Coding("i1").hintsUsed < MaxHints
          /\ updateCodingState("i1", payload)

CodingSubmit ==
    /\ HasCoding("i1")
    /\ uuidCount < 1 + MaxSubmissions
    /\ \E result \in {OnePassed, NoTests} :
          recordCodeSubmission("i1", "ab", "python", result)

NextCoding == CodingInitialize \/ CodingPresent \/ CodingUpdate \/ CodingSubmit \/ Tick

SpecCoding == Init /\ [][NextCoding]_vars

-----------------------------------------------------------------------------
(* SpecSignals: candidate signals of one interview, written by direct        *)
(* updateCandidateSignals calls and by the CODE_UPDATE and EXPRESSION_UPDATE *)
(* handlers of a socket that has joined either the interview or a room with  *)
(* no state behind it.                                                       *)

\* average expression shares in hundredths
Calm == [happy |-> 50, neutral |-> 30, fearful |-> 5, sad |-> 5, angry |-> 5]
Nervous == [happy |-> 10, neutral |-> 20, fearful |-> 30, sad |-> 20, angry |-> 10]

\* partial signal objects of direct calls: every key they carry has a value
SignalUpdates ==
    {[k \in {"isTyping"} |-> Some(TRUE)],
     [k \in {"codeLength"} |-> Some(42)],
     [k \in {"isTyping"} |-> Some(FALSE)],
     LongPause,
     [k \in {"currentPauseSeconds", "longPauseDetected"} |->
         IF k = "currentPauseSeconds" THEN Some(3) ELSE Some(FALSE)]}

\* EXPRESSION_UPDATE messages, with and without averageExpressions
ExpressionMessages ==
    [expression : {"happy", "fearful"}, confidence : {90},
     averageExpressions : {None, Some(Calm), Some(Nervous)}]

SignalsInitialize ==
    /\ ~HasState("i1")
    /\ createInterviewState("i1", "CODING", 0)

SignalsPresent ==
    /\ HasState("i1")
    /\ ~HasCoding("i1")
    /\ initializeCodingState("i1", Problem1, "javascript")

SignalsConnect == connection("s1")

SignalsJoin == \E i \in InterviewIds : handleJoinInterview("s1", i)

SignalsDirect ==
    /\ HasState("i1")
    /\ \E signals \in SignalUpdates : updateCandidateSignals("i1", signals)

SignalsCodeUpdate == \E code \in {"", "ab"} : handleCodeUpdate("s1", code, "python")

SignalsExpressionUpdate ==
    \E data \in ExpressionMessages : handleExpressionUpdate("s1", data)

NextSignals ==
    \/ SignalsInitialize \/ SignalsPresent \/ SignalsConnect \/ SignalsJoin
    \/ SignalsDirect \/ SignalsCodeUpdate \/ SignalsExpressionUpdate \/ Tick

SpecSignals == Init /\ [][NextSignals]_vars

-----------------------------------------------------------------------------
(* SpecMissing: operations on interview ids that have no entry in the store. *)
(* "i2" never has one; "i1" is created, asked a question, completed and      *)
(* deleted (also while its completion is still being persisted), and         *)
(* created again, so that it is missing before and after it had state.       *)

MissingPhases == {"introduction", "completed"}

MissingCreate ==
    /\ ~HasState("i1")
    /\ timerCount < MaxCreates
    /\ createInterviewState("i1", "CODING", 0)

MissingAsk ==
    /\ HasState("i1")
    /\ Len(Log("i1")) < MaxMissingQuestions
    /\ recordQuestion("i1", "coding", "MEDIUM", FALSE)

MissingCompleteOther ==
    /\ HasState("i1")
    /\ stateStore["i1"].phase # "completed"
    /\ completeInterview("i1")

MissingPersistSettled ==
    \E p \in pendingPersist, ok \in BOOLEAN : persistSettled(p, ok)

MissingDeleteOther == HasState("i1") /\ deleteState("i1")

MissingSetPhase ==
    \E i \in InterviewIds, phase \in MissingPhases : ~HasState(i) /\ setPhase(i, phase)

MissingRecordQuestion ==
    \E i \in InterviewIds : ~HasState(i) /\ recordQuestion(i, "coding", "MEDIUM", FALSE)

MissingRecordAnswer ==
    \E i \in InterviewIds, questionId \in 1..2 :
       ~HasState(i) /\ recordAnswer(i, questionId, 7, None)

MissingSignals ==
    \E i \in InterviewIds : ~HasState(i) /\ updateCandidateSignals(i, LongPause)

MissingInitCoding ==
    \E i \in InterviewIds : ~HasState(i) /\ initializeCodingState(i, Problem1, "javascript")

MissingUpdateCoding ==
    \E i \in InterviewIds : ~HasState(i) /\ updateCodingState(i, HintOnly)

MissingSubmit ==
    \E i \in InterviewIds :
       ~HasState(i) /\ recordCodeSubmission(i, "x", "javascript", OnePassed)

MissingSnapshot == \E i \in InterviewIds : ~HasState(i) /\ getStateSnapshot(i)

MissingComplete == \E i \in InterviewIds : ~HasState(i) /\ completeInterview(i)

MissingUpdateElapsed == \E i \in InterviewIds : ~HasState(i) /\ updateElapsedTime(i)

MissingDelete == \E i \in InterviewIds : ~HasState(i) /\ deleteState(i)

NextMissing ==
    \/ MissingCreate \/ MissingAsk \/ MissingCompleteOther \/ MissingPersistSettled
    \/ MissingDeleteOther
    \/ MissingSetPhase \/ MissingRecordQuestion \/ MissingRecordAnswer
    \/ MissingSignals \/ MissingInitCoding \/ MissingUpdateCoding \/ MissingSubmit
    \/ MissingSnapshot \/ MissingComplete \/ MissingUpdateElapsed \/ MissingDelete
    \/ Tick

SpecMissing == Init /\ [][NextMissing]_vars

-----------------------------------------------------------------------------
(* SpecTools: the voice platform calls the ten tools in any order, with and  *)
(* without an interview id, for an interview that is initialized ("i1") and  *)
(* one that never is ("i2"), with the database answering or failing.         *)

ToolCallIds == {"t1"}

\* what extractInterviewId finds
CallInterviewIds == {None, Some("i1"), Some("i2")}

\* outcomes of the codingProblem lookup
DbOutcomes == {"fails", "none", "found"}

\* per-test outcomes of a sandbox run
TestOutcomes == {<<TRUE, TRUE>>, <<TRUE, FALSE>>, <<>>}

ToolInitialize ==
    \E t \in ToolCallIds, hasUserId \in BOOLEAN, i \in {None, Some("i1")}, dbOk \in BOOLEAN :
       /\ uuidCount < MaxToolIds
       /\ initializeInterviewTool(t, hasUserId, i, "CODING", dbOk)

ToolNextQuestion ==
    \E t \in ToolCallIds, i \in CallInterviewIds :
       /\ uuidCount < MaxToolIds
       /\ getNextQuestionTool(t, i, "coding", "MEDIUM", FALSE)

ToolEvaluateAnswer ==
    \E t \in ToolCallIds, i \in CallInterviewIds, hasAnswer \in BOOLEAN,
       questionId \in {None, Some(99)} :
       /\ IsSome(i) /\ HasState(Get(i)) =>
             stateStore[Get(i)].performance.answeredQuestions < 1
       /\ evaluateAnswerTool(t, i, hasAnswer, questionId, 8, FALSE)

ToolGetState ==
    \E t \in ToolCallIds, i \in CallInterviewIds : getInterviewStateTool(t, i)

ToolShouldWrapUp ==
    \E t \in ToolCallIds, i \in CallInterviewIds : shouldWrapUpTool(t, i)

ToolPresentProblem ==
    \E t \in ToolCallIds, i \in CallInterviewIds, db \in DbOutcomes :
       presentCodingProblemTool(t, i, db, Problem1, "javascript")

ToolCheckProgress ==
    \E t \in ToolCallIds, i \in CallInterviewIds : checkCodeProgressTool(t, i)

ToolExecuteCode ==
    \E t \in ToolCallIds, i \in CallInterviewIds, code \in {None, Some("ab")},
       db \in DbOutcomes, testResults \in TestOutcomes :
       /\ uuidCount < MaxToolIds
       /\ executeCodeTool(t, i, code, None, db, testResults)

ToolHint ==
    \E t \in ToolCallIds, i \in CallInterviewIds : getCodingHintTool(t, i)

ToolComplete ==
    \E t \in ToolCallIds, i \in CallInterviewIds, ok \in BOOLEAN :
       completeInterviewTool(t, i, ok)

NextTools ==
    \/ ToolInitialize \/ ToolNextQuestion \/ ToolEvaluateAnswer \/ ToolGetState
    \/ ToolShouldWrapUp \/ ToolPresentProblem \/ ToolCheckProgress
    \/ ToolExecuteCode \/ ToolHint \/ ToolComplete

SpecTools == Init /\ [][NextTools]_vars

-----------------------------------------------------------------------------
(* SpecRecreate: one interview is created, worked on (a question asked and   *)
(* answered, a long pause signalled, a coding problem presented) and created *)
(* again over the state it has.                                              *)

RecreateInitialize ==
    /\ timerCount < MaxRecreates
    /\ \E roundType \in {"CODING", "HR"} : createInterviewState("i1", roundType, 0)

RecreateAsk ==
    /\ HasState("i1")
    /\ Len(Log("i1")) < 1
    /\ recordQuestion("i1", "coding", "MEDIUM", FALSE)

RecreateAnswer ==
    /\ HasState("i1")
    /\ Len(Log("i1")) > 0
    /\ Perf("i1").answeredQuestions < 1
    /\ recordAnswer("i1", Log("i1")[1].id, 8, None)

RecreateSignals == HasState("i1") /\ updateCandidateSignals("i1", LongPause)

RecreatePresent ==
    /\ HasState("i1")
    /\ ~HasCoding("i1")
    /\ initializeCodingState("i1", Problem1, "javascript")

NextRecreate ==
    \/ RecreateInitialize \/ RecreateAsk \/ RecreateAnswer \/ RecreateSignals
    \/ RecreatePresent \/ Tick

SpecRecreate == Init /\ [][NextRecreate]_vars

-----------------------------------------------------------------------------
(* SpecPersist: one interview is created (possibly again over the state it   *)
(* has), moved through phases, completed and deleted, while its persistence  *)
(* timers fire and the database writes succeed or fail.  The caller awaits   *)
(* a completeInterview before its next call; timers fire at any time.        *)

PersistPhases == {"introduction", "wrap_up"}

CompletionPending(interviewId) ==
    \E p \in pendingPersist : p.iid = interviewId /\ p.caller = "complete"

PersistCreate ==
    /\ ~CompletionPending("i1")
    /\ timerCount < MaxPersistCreates
    /\ createInterviewState("i1", "CODING", 0)

PersistSetPhase ==
    /\ HasState("i1")
    /\ ~CompletionPending("i1")
    /\ stateStore["i1"].phase # "completed"
    /\ \E phase \in PersistPhases : setPhase("i1", phase)

PersistInitCoding ==
    /\ HasState("i1")
    /\ ~CompletionPending("i1")
    /\ ~HasCoding("i1")
    /\ stateStore["i1"].phase # "completed"
    /\ initializeCodingState("i1", Problem1, "javascript")

PersistComplete ==
    /\ HasState("i1")
    /\ ~CompletionPending("i1")
    /\ completeInterview("i1")

PersistTimer == \E t \in activeTimers : HasState(t.iid) /\ timerFires(t)

PersistSettled == \E p \in pendingPersist, ok \in BOOLEAN : persistSettled(p, ok)

PersistDelete ==
    /\ HasState("i1")
    /\ ~CompletionPending("i1")
    /\ deleteState("i1")

NextPersist ==
    \/ PersistCreate \/ PersistSetPhase \/ PersistInitCoding \/ PersistComplete
    \/ PersistTimer \/ PersistSettled \/ PersistDelete \/ Tick

SpecPersist == Init /\ [][NextPersist]_vars

-----------------------------------------------------------------------------
(* SpecPresent: a coding problem is presented to one interview in any phase, *)
(* worked on (code typed, a hint taken, a run executed and submitted) and    *)
(* another problem, or the same one, is presented over it.                   *)

PresentPhases == {"main_questions", "coding_active", "coding_review", "completed"}

PresentPayloads ==
    {HintOnly,
     [NoPayload EXCEPT !.code = Some("ab"), !.language = Some("python")],
     [NoPayload EXCEPT !.executionResult = Some(OnePassed)]}

PresentInitialize ==
    /\ ~HasState("i1")
    /\ createInterviewState("i1", "CODING", 0)

PresentSetPhase ==
    /\ HasState("i1")
    /\ \E phase \in PresentPhases : setPhase("i1", phase)

PresentProblem ==
    /\ HasState("i1")
    /\ \E problem \in {Problem1, Problem2} :
          initializeCodingState("i1", problem, "javascript")

PresentUpdate ==
    /\ HasCoding("i1")
    /\ \E payload \in PresentPayloads :
          /\ payload.hintUsed = Some(TRUE) => Coding("i1").hintsUsed < MaxPresentHints
          /\ updateCodingState("i1", payload)

PresentSubmit ==
    /\ HasCoding("i1")
    /\ uuidCount < 1 + MaxPresentSubmissions
    /\ recordCodeSubmission("i1", "ab", "python", OnePassed)

NextPresent ==
    \/ PresentInitialize \/ PresentSetPhase \/ PresentProblem \/ PresentUpdate
    \/ PresentSubmit

SpecPresent == Init /\ [][NextPresent]_vars

-----------------------------------------------------------------------------
(* SpecExecute: the executeCode tool on one interview, before and after a    *)
(* problem is presented and in several phases, with the call's code given or *)
(* left out, the problem lookup failing, finding nothing or finding the test *)
(* cases, and the tests passing, failing or absent.                          *)

ExecutePhases == {"coding_active", "wrap_up"}

ExecuteInitialize ==
    /\ ~HasState("i1")
    /\ createInterviewState("i1", "CODING", 0)

ExecuteSetPhase ==
    /\ HasState("i1")
    /\ \E phase \in ExecutePhases : setPhase("i1", phase)

ExecutePresent ==
    /\ HasState("i1")
    /\ ~HasCoding("i1")
    /\ initializeCodingState("i1", Problem1, "javascript")

ExecuteRun ==
    /\ uuidCount < MaxExecuteIds
    /\ \E i \in {Some("i1"), Some("i2")}, code \in {None, Some("ab")},
          db \in DbOutcomes, testResults \in TestOutcomes :
          executeCodeTool("t1", i, code, None, db, testResults)

NextExecute ==
    \/ ExecuteInitialize \/ ExecuteSetPhase \/ ExecutePresent \/ ExecuteRun

SpecExecute == Init /\ [][NextExecute]_vars

-----------------------------------------------------------------------------
(* SpecAreas: questions of two categories are asked and answered with a low  *)
(* or a high score, so that topic averages differ by more than a point.      *)

AreaCategories == {"behavioral", "coding"}
AreaScores == {2, 9}

AreaInitialize ==
    /\ ~HasState("i1")
    /\ createInterviewState("i1", "BEHAVIORAL", 0)

AreaAskQuestion ==
    /\ HasState("i1")
    /\ Len(Log("i1")) < MaxAreaQuestions
    /\ \E category \in AreaCategories :
          recordQuestion("i1", category, "MEDIUM", FALSE)

AreaScoreAnswer ==
    /\ HasState("i1")
    /\ Perf("i1").answeredQuestions < MaxAreaAnswers
    /\ \E k \in 1..Len(Log("i1")), score \in AreaScores :
          recordAnswer("i1", Log("i1")[k].id, score, None)

NextAreas == AreaInitialize \/ AreaAskQuestion \/ AreaScoreAnswer

SpecAreas == Init /\ [][NextAreas]_vars

-----------------------------------------------------------------------------
(* SpecWindow: one question answered again and again with a low or a high    *)
(* score, past the length of the rolling window.                             *)

WindowScores == {3, 7}

WindowInitialize ==
    /\ ~HasState("i1")
    /\ createInterviewState("i1", "TECHNICAL", 0)

WindowAskQuestion ==
    /\ HasState("i1")
    /\ Len(Log("i1")) < 1
    /\ recordQuestion("i1", "technical_concept", "MEDIUM", FALSE)

WindowScoreAnswer ==
    /\ HasState("i1")
    /\ Perf("i1").answeredQuestions < MaxWindowAnswers
    /\ \E questionId \in {2, 99}, score \in WindowScores :
          recordAnswer("i1", questionId, score, None)

NextWindow == WindowInitialize \/ WindowAskQuestion \/ WindowScoreAnswer

SpecWindow == Init /\ [][NextWindow]_vars

-----------------------------------------------------------------------------
(* SpecRetry: withRetry and withRetryAndFallback on every fn whose           *)
(* invocations succeed, fail transiently or fail for good, for every         *)
(* maxRetries up to the bound.                                               *)

FnOutcomes == {"ok", "transient", "fatal"}

\* one outcome more than the attempts allowed, so an extra invocation shows
FnBehaviours == [1..(MaxRetriesConfig + 1) -> FnOutcomes]

RetryRandoms == {0, 4}

\* one run per behaviour: the helper keeps nothing between calls
RetryCall ==
    /\ ret = Void
    /\ \E outcomes \in FnBehaviours, maxRetries \in 0..MaxRetriesConfig,
          random \in RetryRandoms :
          RunRetry(outcomes, maxRetries, random)

NextRetry == RetryCall

SpecRetry == Init /\ [][NextRetry]_vars

-----------------------------------------------------------------------------
(* SpecEvaluate: the evaluateAnswer tool with the evaluator behind it: the   *)
(* LLM answers, is rate limited or fails on each of its calls, returns a     *)
(* score in or out of range or none, and the answer is short or long.        *)

LlmOutcomes == {"ok", "rateLimit", "error"}
LlmBehaviours == [1..(MAX_RETRIES + 1) -> LlmOutcomes]
RawScores == {None, Some(-2), Some(7), Some(15)}
AnswerLengths == {10, 100, 300, 600}

\* what evaluate can return
Evaluations ==
    {evaluate(outcomes, rawScore, FALSE, answerLength) :
        outcomes \in LlmBehaviours, rawScore \in RawScores,
        answerLength \in AnswerLengths}

EvaluateInitialize ==
    /\ ~HasState("i1")
    /\ createInterviewState("i1", "TECHNICAL", 0)

EvaluateAsk ==
    /\ HasState("i1")
    /\ Len(Log("i1")) < 2
    /\ recordQuestion("i1", "technical_concept", "MEDIUM", FALSE)

EvaluateAnswer ==
    /\ HasState("i1")
    /\ Perf("i1").answeredQuestions < MaxEvaluations
    /\ \E e \in Evaluations, questionId \in {None, Some(2)} :
          evaluateAnswerTool("t1", Some("i1"), TRUE, questionId, e.score,
                             e.suggestFollowUp)

NextEvaluate == EvaluateInitialize \/ EvaluateAsk \/ EvaluateAnswer

SpecEvaluate == Init /\ [][NextEvaluate]_vars

-----------------------------------------------------------------------------
(* SpecHints: two interviews, each presented a problem with two hints or     *)
(* with none; hints are asked for, before the problem, while hints remain    *)
(* and after the last one, between code updates and clock steps.             *)

HintsInitialize ==
    \E i \in InterviewIds :
       /\ ~HasState(i)
       /\ createInterviewState(i, "CODING", 0)

HintsPresent ==
    \E i \in InterviewIds, problem \in {Problem1, Problem2} :
       /\ HasState(i)
       /\ ~HasCoding(i)
       /\ initializeCodingState(i, problem, "javascript")

HintsType ==
    \E i \in InterviewIds :
       /\ HasCoding(i)
       /\ Coding(i).currentCode # "ab"
       /\ updateCodingState(i, [NoPayload EXCEPT !.code = Some("ab")])

HintsAsk == \E i \in InterviewIds : getCodingHint(i)

NextHints == HintsInitialize \/ HintsPresent \/ HintsType \/ HintsAsk \/ Tick

SpecHints == Init /\ [][NextHints]_vars

(* SpecRooms: two sockets connect, join and leave either interview in any    *)
(* order and disconnect; no interview state is involved.                     *)

RoomsConnect == \E s \in SocketIds : connection(s)

RoomsJoin == \E s \in SocketIds, i \in InterviewIds : handleJoinInterview(s, i)

RoomsLeave == \E s \in SocketIds, i \in InterviewIds : handleLeaveInterview(s, i)

RoomsDisconnect == \E s \in SocketIds : handleDisconnect(s)

NextRooms == RoomsConnect \/ RoomsJoin \/ RoomsLeave \/ RoomsDisconnect

SpecRooms == Init /\ [][NextRooms]_vars

(* SpecMembers: two sockets join and leave the two interviews, of which i1   *)
(* has a state with a coding problem, and send CODE_UPDATE and               *)
(* EXPRESSION_UPDATE events before, between and after.                       *)

MembersInitialize ==
    /\ ~HasState("i1")
    /\ createInterviewState("i1", "CODING", 0)

MembersPresent ==
    /\ HasState("i1")
    /\ ~HasCoding("i1")
    /\ initializeCodingState("i1", Problem1, "javascript")

MembersConnect == \E s \in SocketIds : connection(s)

MembersJoin == \E s \in SocketIds, i \in InterviewIds : handleJoinInterview(s, i)

MembersLeave == \E s \in SocketIds, i \in InterviewIds : handleLeaveInterview(s, i)

MembersCodeUpdate ==
    \E s \in SocketIds, code \in {"", "ab"} : handleCodeUpdate(s, code, "python")

MembersExpressionUpdate ==
    \E s \in SocketIds, data \in ExpressionMessages : handleExpressionUpdate(s, data)

NextMembers ==
    \/ MembersInitialize \/ MembersPresent \/ MembersConnect \/ MembersJoin
    \/ MembersLeave \/ MembersCodeUpdate \/ MembersExpressionUpdate

SpecMembers == Init /\ [][NextMembers]_vars

(* SpecRounds: one session of up to MaxRounds rounds, prerequisites enabled; *)
(* its rounds are started, completed and skipped in any order, one call      *)
(* after the other.                                                          *)

RoundIds == {<<s, k>> : s \in SessionIds, k \in 1..MaxRounds}

\* payload.rounds: a required and an optional round type in every arrangement
RoundLists == UNION {[1..n -> {"TECHNICAL", "HR"}] : n \in 1..MaxRounds}

RoundsCreate ==
    \E s \in SessionIds, roundTypes \in RoundLists : createSession(s, roundTypes, TRUE)

RoundsStart ==
    \E s \in DOMAIN interviewSession, r \in RoundIds : startRound(s, r, TRUE)

RoundsComplete ==
    \E s \in DOMAIN interviewSession, r \in RoundIds : completeRound(s, r)

RoundsSkip ==
    \E s \in DOMAIN interviewSession, r \in RoundIds : skipRound(s, r)

NextRounds == RoundsCreate \/ RoundsStart \/ RoundsComplete \/ RoundsSkip

SpecRounds == Init /\ [][NextRounds]_vars

(* SpecInterleave: a session of MaxInterleaveRounds rounds; its rounds are    *)
(* skipped or completed, each completed once, and the completeRound calls    *)
(* run one database operation at a time, so that calls for different rounds  *)
(* interleave at their awaits.                                               *)

InterleaveLists == [1..MaxInterleaveRounds -> {"TECHNICAL", "HR"}]

InterleaveCreate ==
    \E s \in SessionIds, roundTypes \in InterleaveLists :
       createSession(s, roundTypes, TRUE)

InterleaveSkip ==
    \E s \in DOMAIN interviewSession, k \in 1..MaxInterleaveRounds :
       skipRound(s, <<s, k>>)

InterleaveCompleteBegin ==
    \E s \in DOMAIN interviewSession, k \in 1..MaxInterleaveRounds :
       /\ interviewRound[<<s, k>>].status # "COMPLETED"
       /\ completeRoundBegin(s, <<s, k>>)

InterleaveCompleteStep == \E call \in pendingCalls : completeRoundStep(call)

NextInterleave ==
    \/ InterleaveCreate \/ InterleaveSkip
    \/ InterleaveCompleteBegin \/ InterleaveCompleteStep

SpecInterleave == Init /\ [][NextInterleave]_vars

(* SpecAwait: evaluateAnswer calls without questionId on one interview,      *)
(* suspended at the evaluator while getNextQuestion records further          *)
(* questions and other evaluations begin and end.                            *)

AwaitCallIds == 1..2

AwaitInitialize ==
    /\ ~HasState("i1")
    /\ createInterviewState("i1", "TECHNICAL", 0)

AwaitAsk ==
    /\ HasState("i1")
    /\ Len(Log("i1")) < MaxAwaitQuestions
    /\ \E isFollowUp \in BOOLEAN :
          getNextQuestionTool("t1", Some("i1"), "technical_concept", "MEDIUM", isFollowUp)

AwaitBegin ==
    /\ HasState("i1")
    /\ Perf("i1").answeredQuestions + Cardinality(pendingCalls) < MaxAwaitAnswers
    /\ \E callId \in AwaitCallIds : evaluateAnswerBegin(callId, "i1", None)

AwaitEnd ==
    \E call \in pendingCalls, score \in {3, 8}, suggestFollowUp \in BOOLEAN :
       evaluateAnswerEnd(call, score, suggestFollowUp)

NextAwait == AwaitInitialize \/ AwaitAsk \/ AwaitBegin \/ AwaitEnd

SpecAwait == Init /\ [][NextAwait]_vars

-----------------------------------------------------------------------------
(* Properties *)

\* the mean of the scores of the scored questions of a log
MeanOfScored(questions) ==
    Frac(TotalScore(questions, QuestionCategories),
         Cardinality(ScoredIndices(questions, QuestionCategories)))

\* C1: after any sequence of recordQuestion and recordAnswer calls,
\* performance.averageScore is the sum of the scores of the scored questions
\* of the log divided by the number of scored questions.
C1_AverageIsMeanOfScored ==
    \A i \in DOMAIN stateStore :
        ScoredIndices(Log(i), QuestionCategories) # {}
            => Perf(i).averageScore = MeanOfScored(Log(i))

\* the state the scenario of C2 ends in: a fresh TECHNICAL interview, one
\* technical_concept question of difficulty MEDIUM, answered once with score 8
C2_ScenarioReached ==
    /\ HasState("i1")
    /\ stateStore["i1"].roundType = "TECHNICAL"
    /\ Len(Log("i1")) = 1
    /\ Log("i1")[1].category = "technical_concept"
    /\ Log("i1")[1].difficulty = "MEDIUM"
    /\ Log("i1")[1].score = Some(8)
    /\ Perf("i1").answeredQuestions = 1

\* C2 as stated: the scenario leaves averageScore 8.0, suggestedDifficulty
\* MEDIUM and technical_concept among the snapshot's topicsCovered.
C2_ScenarioSuggestsMedium ==
    C2_ScenarioReached =>
        /\ Perf("i1").averageScore = FracInt(8)
        /\ Perf("i1").suggestedDifficulty = "MEDIUM"
        /\ "technical_concept" \in Snapshot(stateStore["i1"]).topicsCovered

\* C2 amended: the scenario leaves averageScore 8.0 (8.0 in the snapshot too),
\* suggestedDifficulty HARD and technical_concept among the snapshot's
\* topicsCovered.
C2_ScenarioSuggestsHard ==
    C2_ScenarioReached =>
        /\ Perf("i1").averageScore = FracInt(8)
        /\ Snapshot(stateStore["i1"]).averageScoreTenths = 80
        /\ Perf("i1").suggestedDifficulty = "HARD"
        /\ Snapshot(stateStore["i1"]).suggestedDifficulty = "HARD"
        /\ "technical_concept" \in Snapshot(stateStore["i1"]).topicsCovered

\* C4: a recordAnswer call whose questionId matches no question of the log
\* returns null and leaves the whole state store as it was.
C4_UnknownQuestionIsNoOp ==
    [][\A i \in InterviewIds, questionId \in QuestionIds, score \in AnswerScores :
          ( /\ HasState(i)
            /\ \A k \in 1..Len(Log(i)) : Log(i)[k].id # questionId
            /\ recordAnswer(i, questionId, score, None) )
          => (ret' = Null /\ stateStore' = stateStore)]_vars

\* a recordAnswer with an unknown id has returned null on an interview that
\* has questions and a scored answer
C4_UnknownQuestionAnswered ==
    /\ ret = Null
    /\ HasState("i1")
    /\ Len(Log("i1")) > 0
    /\ Perf("i1").answeredQuestions > 0

\* C5: getStateSnapshot returns null for an id with no state; for an id with
\* a state topicsCovered and topicsRemaining are disjoint, their union is the
\* nine categories, and a category is covered exactly when a question of that
\* category is in the log.
C5_SnapshotPartitionsTopics ==
    [][\A i \in InterviewIds :
          getStateSnapshot(i) =>
             IF ~HasState(i) THEN ret' = Null
             ELSE /\ ret'.kind = "snapshot"
                  /\ ret'.snap.topicsCovered \cap ret'.snap.topicsRemaining = {}
                  /\ ret'.snap.topicsCovered \cup ret'.snap.topicsRemaining
                        = QuestionCategories
                  /\ Cardinality(QuestionCategories) = 9
                  /\ \A c \in QuestionCategories :
                        c \in ret'.snap.topicsCovered
                           <=> \E k \in 1..Len(Log(i)) : Log(i)[k].category = c]_vars

\* a snapshot was returned with two topics covered, one of them scored
C5_SnapshotTaken ==
    /\ ret.kind = "snapshot"
    /\ Cardinality(ret.snap.topicsCovered) = 2
    /\ Cardinality(ret.snap.topicsRemaining) = 7
    /\ Perf("i1").answeredQuestions = 1

\* the rule table of C6
DifficultyRule(avgScore, trend) ==
    IF FracGE(avgScore, FracInt(8)) /\ trend # "declining" THEN "HARD"
    ELSE IF FracGE(avgScore, FracInt(6)) \/ trend = "improving" THEN "MEDIUM"
    ELSE IF FracLT(avgScore, FracInt(5)) /\ trend = "declining" THEN "EASY"
    ELSE "MEDIUM"

\* C6: after every recordAnswer that finds its question, suggestedDifficulty
\* is what the ordered rule table gives for the resulting averageScore and
\* scoreTrend.
C6_DifficultyFollowsRuleTable ==
    \A i \in DOMAIN stateStore :
        Perf(i).answeredQuestions > 0 =>
            Perf(i).suggestedDifficulty =
                DifficultyRule(Perf(i).averageScore, Perf(i).scoreTrend)

\* an average of exactly 4 with a declining trend, and EASY suggested
C6_EasyReached ==
    /\ HasState("i1")
    /\ Perf("i1").averageScore = FracInt(4)
    /\ Perf("i1").scoreTrend = "declining"
    /\ Perf("i1").suggestedDifficulty = "EASY"

\* the round minimums as C7 lists them
ClaimedMinQuestions(roundType) ==
    CASE roundType = "BEHAVIORAL" -> 4
      [] roundType = "TECHNICAL" -> 5
      [] roundType = "CODING" -> 1
      [] roundType = "SYSTEM_DESIGN" -> 2
      [] roundType = "HR" -> 3

\* elapsed minutes >= 90% of the estimated duration
TimeNearlyUp(state) == state.elapsedSeconds * 10 >= state.estimatedDurationMinutes * 9 * 60

\* a step in which a recordAnswer call found its question on interview i:
\* no other operation increments answeredQuestions
AnswerRecorded(i) ==
    /\ HasState(i)
    /\ i \in DOMAIN stateStore'
    /\ stateStore'[i].id = stateStore[i].id
    /\ stateStore'[i].performance.answeredQuestions
          = stateStore[i].performance.answeredQuestions + 1

\* C7: a recordAnswer on a state whose shouldWrapUp is false sets it to true
\* if and only if the elapsed minutes are at least 90% of the estimated
\* duration, or the questions asked are at least the round minimum and the
\* average score is at least 5.
C7_WrapUpRule ==
    [][\A i \in InterviewIds :
          (AnswerRecorded(i) /\ ~stateStore[i].shouldWrapUp)
          => ( stateStore'[i].shouldWrapUp
               <=> \/ TimeNearlyUp(stateStore'[i])
                   \/ /\ stateStore'[i].performance.totalQuestions
                            >= ClaimedMinQuestions(stateStore'[i].roundType)
                      /\ FracGE(stateStore'[i].performance.averageScore,
                                FracInt(5)) )]_vars

\* a behavioral round of 20 minutes with 4 questions asked and an average of
\* exactly 5 wraps up with the time far from up
C7_BehavioralWrapsAtFour ==
    /\ HasState("i1")
    /\ stateStore["i1"].roundType = "BEHAVIORAL"
    /\ stateStore["i1"].estimatedDurationMinutes = 20
    /\ Perf("i1").totalQuestions = 4
    /\ Perf("i1").answeredQuestions = 1
    /\ Perf("i1").averageScore = FracInt(5)
    /\ ~TimeNearlyUp(stateStore["i1"])
    /\ stateStore["i1"].shouldWrapUp

\* C3: for an interview state that exists, once shouldWrapUp is true it stays
\* true across every further operation on that state.
C3_WrapUpIsSticky ==
    [][\A i \in InterviewIds :
          ( /\ HasState(i)
            /\ i \in DOMAIN stateStore'
            /\ stateStore'[i].id = stateStore[i].id
            /\ stateStore[i].shouldWrapUp )
          => stateStore'[i].shouldWrapUp]_vars

\* shouldWrapUp is still true although the wrap-up check no longer passes:
\* a later answer brought the average under 5 and the time is not up; the
\* interview has a coding sub-state and was completed meanwhile
C3_StillWrappingUp ==
    /\ HasCoding("i1")
    /\ stateStore["i1"].shouldWrapUp
    /\ Perf("i1").answeredQuestions = 2
    /\ FracLT(Perf("i1").averageScore, FracInt(5))
    /\ ~TimeNearlyUp(stateStore["i1"])
    /\ stateStore["i1"].phase = "completed"
    /\ Coding("i1").hintsUsed = 1

\* C8: updateCodingState with only {hintUsed: true} on an interview that has
\* a coding sub-state adds exactly 1 to hintsUsed and leaves currentCode,
\* language, submissions, testCasesPassed and lastExecutionResult unchanged.
C8_HintOnlyTouchesCounter ==
    [][\A i \in InterviewIds :
          (HasCoding(i) /\ stateStore' # stateStore /\ updateCodingState(i, HintOnly))
          => LET old == Coding(i)
                 new == Get(stateStore'[i].codingState)
             IN  /\ new.hintsUsed = old.hintsUsed + 1
                 /\ new.currentCode = old.currentCode
                 /\ new.language = old.language
                 /\ new.submissions = old.submissions
                 /\ new.testCasesPassed = old.testCasesPassed
                 /\ new.lastExecutionResult = old.lastExecutionResult]_vars

\* two hints were taken on a sub-state whose code, language, submission log,
\* pass count and last result all differ from their initial values
C8_HintsTakenOnEditedCode ==
    /\ HasCoding("i1")
    /\ Coding("i1").hintsUsed = 2
    /\ Coding("i1").currentCode = "ab"
    /\ Coding("i1").language = "python"
    /\ Len(Coding("i1").submissions) = 1
    /\ Coding("i1").testCasesPassed = 1
    /\ Coding("i1").lastExecutionResult = Some(OnePassed)
    /\ Coding("i1").timeSpentSeconds > 0

Signals(interviewId) == stateStore[interviewId].candidateSignals

\* what the signals are after an update: a field the update supplied a value
\* for takes it, every other field keeps what it held
MergeSupplied(old, supplied) ==
    [k \in SignalKeys |->
        IF k \in DOMAIN supplied /\ IsSome(supplied[k]) THEN supplied[k] ELSE old[k]]

\* the values a CODE_UPDATE message supplies
CodeUpdateSupplies(code) ==
    [k \in {"isTyping", "lastCodeUpdate", "codeLength"} |->
        CASE k = "isTyping" -> Some(TRUE)
          [] k = "lastCodeUpdate" -> Some(now)
          [] k = "codeLength" -> Some(CodeLength(code))]

\* the values an EXPRESSION_UPDATE message supplies
ExpressionUpdateSupplies(data) ==
    [k \in {"currentExpression", "expressionConfidence", "averageExpressions"} |->
        CASE k = "currentExpression" -> Some(data.expression)
          [] k = "expressionConfidence" -> Some(data.confidence)
          [] k = "averageExpressions" -> data.averageExpressions]

\* C9: every candidate-signal update (a direct updateCandidateSignals call, a
\* CODE_UPDATE or an EXPRESSION_UPDATE of a socket joined to the interview)
\* leaves each signal field at the value the update supplied for it, and at its
\* prior value when the update supplied none: no field is ever cleared.
C9_SignalsLastWriteWins ==
    [][\A i \in InterviewIds :
          (HasState(i) /\ stateStore' # stateStore) =>
             /\ \A signals \in SignalUpdates :
                   updateCandidateSignals(i, signals)
                   => stateStore'[i].candidateSignals
                         = MergeSupplied(Signals(i), signals)
             /\ \A s \in SocketIds :
                   (Connected(s) /\ socketData[s].interviewId = Some(i)) =>
                      /\ \A code \in {"", "ab"} :
                            handleCodeUpdate(s, code, "python")
                            => stateStore'[i].candidateSignals
                                  = MergeSupplied(Signals(i), CodeUpdateSupplies(code))
                      /\ \A data \in ExpressionMessages :
                            handleExpressionUpdate(s, data)
                            => stateStore'[i].candidateSignals
                                  = MergeSupplied(Signals(i),
                                                  ExpressionUpdateSupplies(data))]_vars

\* the operations that answer null for a missing id
ReturnsNullOn(i) ==
    \/ \E phase \in MissingPhases : setPhase(i, phase)
    \/ recordQuestion(i, "coding", "MEDIUM", FALSE)
    \/ \E questionId \in 1..2 : recordAnswer(i, questionId, 7, None)
    \/ updateCandidateSignals(i, LongPause)
    \/ initializeCodingState(i, Problem1, "javascript")
    \/ updateCodingState(i, HintOnly)
    \/ recordCodeSubmission(i, "x", "javascript", OnePassed)
    \/ getStateSnapshot(i)
    \/ completeInterview(i)

\* the operations that return nothing
ReturnsVoidOn(i) == updateElapsedTime(i) \/ deleteState(i)

\* C10: on an id with no entry in the store, setPhase, recordQuestion,
\* recordAnswer, updateCandidateSignals, initializeCodingState,
\* updateCodingState, recordCodeSubmission, getStateSnapshot and
\* completeInterview return null, updateElapsedTime and deleteState return
\* nothing, and each leaves the store (so every other interview's state, and
\* the absence of an entry for the id), the persistence timers and the writes
\* in flight exactly as they were.
C10_MissingIdIsNoOp ==
    [][\A i \in InterviewIds :
          ~HasState(i) =>
             /\ ReturnsNullOn(i) => ret' = Null
             /\ ReturnsVoidOn(i) => ret' = Void
             /\ (ReturnsNullOn(i) \/ ReturnsVoidOn(i))
                => /\ stateStore' = stateStore
                   /\ UNCHANGED <<timerVars, uuidCount>>]_vars

\* an operation has answered null while the other interview held a logged
\* question and the id it was called with had been created and deleted before
C10_NullWhileOtherHasState ==
    /\ ret = Null
    /\ ~HasState("i2")
    /\ HasState("i1")
    /\ stateStore["i1"].id > 1
    /\ Len(Log("i1")) = 1

\* C11: every tool call is answered with HTTP 200 and the body
\* {results: [{toolCallId, result: <string>}]}, and a call that failed
\* carries an error field inside the result string.
C11_ToolCallsAnswer200 ==
    ret.kind = "http" =>
       /\ ret.status = 200
       /\ DOMAIN ret.body = {"results"}
       /\ Len(ret.body.results) = 1
       /\ ret.body.results[1].toolCallId \in ToolCallIds
       /\ ret.body.results[1].result.isString
       /\ ret.failed => IsSome(ret.body.results[1].result.error)

\* the fresh default record as C12 lists it
IsFreshDefault(state) ==
    /\ state.questions = <<>>
    /\ state.currentQuestionIndex = -1
    /\ DOMAIN state.topicCoverage = QuestionCategories
    /\ Cardinality(QuestionCategories) = 9
    /\ \A c \in QuestionCategories :
          /\ ~state.topicCoverage[c].covered
          /\ state.topicCoverage[c].questionsAsked = 0
          /\ state.topicCoverage[c].averageScore = Zero
    /\ state.performance.totalQuestions = 0
    /\ state.performance.answeredQuestions = 0
    /\ state.performance.averageScore = Zero
    /\ state.performance.recentScores = <<>>
    /\ state.performance.scoreTrend = "stable"
    /\ state.performance.strongAreas = {}
    /\ state.performance.weakAreas = {}
    /\ state.performance.suggestedDifficulty = "MEDIUM"
    /\ state.performance.confidenceLevel = "medium"
    /\ state.codingState = None
    /\ \A k \in DOMAIN state.candidateSignals : state.candidateSignals[k] = None
    /\ ~state.shouldWrapUp
    /\ state.phase = "not_started"
    /\ state.elapsedSeconds = 0
    /\ state.persistedAt = None

\* C12: the store holds one state per id, and a createInterviewState for an id
\* that has a state (the record under the id changes identity) leaves under
\* that id a fresh default record with nothing of the previous one, and adds
\* no entry.
C12_RecreateStartsFresh ==
    [][\A i \in InterviewIds :
          (/\ HasState(i)
           /\ i \in DOMAIN stateStore'
           /\ stateStore'[i].id # stateStore[i].id)
          => /\ IsFreshDefault(stateStore'[i])
             /\ DOMAIN stateStore' = DOMAIN stateStore]_vars

\* the interview was created again over a state that had a question logged:
\* the second state took the third uuid and is the last thing created
C12_RecreatedOverWork ==
    /\ HasState("i1")
    /\ uuidCount = 3
    /\ stateStore["i1"].id = 3
    /\ now > 0
    /\ stateStore["i1"].startedAt = now

\* C13: a completeInterview on an interview that has a state marks it
\* completed whatever its phase was, and when its persistence attempt settles,
\* successfully or not, the phase is still completed and the call returns that
\* state.
C13_CompleteLeavesCompleted ==
    [][/\ \A p \in pendingPersist' \ pendingPersist :
             p.caller = "complete" =>
                /\ stateStore'[p.iid].phase = "completed"
                /\ stateStore'[p.iid].id = p.sid
       /\ \A p \in pendingPersist \ pendingPersist' :
             p.caller = "complete" =>
                /\ HasState(p.iid)
                /\ p.iid \in DOMAIN stateStore'
                /\ stateStore'[p.iid].phase = "completed"
                /\ ret' = [kind |-> "state", id |-> stateStore'[p.iid].id,
                           phase |-> "completed"]]_vars

\* a completeInterview of an interview that never left not-started has
\* returned its state after a failed write
C13_NotStartedCompletedUnpersisted ==
    /\ HasState("i1")
    /\ ret = [kind |-> "state", id |-> stateStore["i1"].id, phase |-> "completed"]
    /\ stateStore["i1"].persistedAt = None
    /\ stateStore["i1"].codingState = None
    /\ uuidCount = 1
    /\ pendingPersist = {}

\* completeInterview has returned for the interview and its state is still
\* the completed one
CompletionReturned(interviewId) ==
    /\ HasState(interviewId)
    /\ stateStore[interviewId].phase = "completed"
    /\ ~CompletionPending(interviewId)

\* C14: completeInterview makes one persistence attempt and then cancels the
\* periodic timer: once it has returned, no timer of the interview is live and
\* no periodic persistence attempt for it starts, whatever createInterviewState
\* calls came before, and the in-memory entry stays until deleteState.
C14_NoPersistenceAfterCompletion ==
    [][/\ \A p \in pendingPersist' \ pendingPersist :
             p.caller = "complete" => pendingPersist' = pendingPersist \cup {p}
       /\ \A p \in pendingPersist \ pendingPersist' :
             p.caller = "complete" =>
                /\ p.iid \in DOMAIN stateStore'
                /\ \A t \in activeTimers' : t.iid # p.iid
       /\ \A p \in pendingPersist' \ pendingPersist :
             p.caller = "timer" => ~CompletionReturned(p.iid)
       /\ \A i \in InterviewIds :
             (CompletionReturned(i) /\ i \notin DOMAIN stateStore')
                => deleteState(i)]_vars

\* C15: the phase moves from introduction to main-questions only when at
\* least one question has been answered; while none has been, getNextQuestion
\* calls leave the phase at introduction.
C15_PromotionNeedsAnswer ==
    [][\A i \in InterviewIds :
          (/\ HasState(i)
           /\ i \in DOMAIN stateStore'
           /\ stateStore[i].phase = "introduction"
           /\ stateStore'[i].phase = "main_questions")
          => stateStore[i].performance.answeredQuestions > 0]_vars

\* C16: initializeCodingState on an interview that has a state leaves a
\* coding sub-state that is the fresh one of the problem presented (current
\* code = starter code, no hints used, no test passed, empty submission log,
\* no last execution result), whatever coding sub-state was there, and the
\* phase coding-setup, whatever the phase was.
C16_PresentReplacesCodingState ==
    [][\A i \in InterviewIds, problem \in {Problem1, Problem2} :
          (/\ stateStore' # stateStore
           /\ HasState(i)
           /\ initializeCodingState(i, problem, "javascript"))
          => /\ IsSome(stateStore'[i].codingState)
             /\ LET coding == Get(stateStore'[i].codingState)
                IN  /\ coding.problemId = problem.id
                    /\ coding.currentCode = problem.starterCode
                    /\ coding.starterCode = problem.starterCode
                    /\ coding.language = "javascript"
                    /\ coding.hintsUsed = 0
                    /\ coding.testCasesPassed = 0
                    /\ coding.totalTestCases = problem.testCases
                    /\ coding.submissions = <<>>
                    /\ coding.lastExecutionResult = None
                    /\ coding.timeSpentSeconds = 0
             /\ stateStore'[i].phase = "coding_setup"]_vars

\* the second problem was just presented over a sub-state whose log held a
\* submitted run
C16_PresentedOverUsedSession ==
    /\ HasCoding("i1")
    /\ Coding("i1").problemId = "p2"
    /\ Coding("i1").submissions = <<>>
    /\ Coding("i1").hintsUsed = 0
    /\ uuidCount = 2
    /\ stateStore["i1"].phase = "coding_setup"
    /\ ret = CodingRef(Coding("i1"))

\* C17: executeCode moves the phase to coding-review exactly when the run
\* produced at least one test result and every test passed; in every other
\* outcome (a test failed, no test cases, no coding session, test cases not
\* found, the lookup failing) the phase is the one before; and whenever there
\* is a coding session and the tests were run, the run is appended to the
\* submission log and testCasesPassed is the number of tests it passed.
C17_ExecuteCodeReviewIffAllPassed ==
    [][\A i \in InterviewIds, code \in {None, Some("ab")},
          db \in DbOutcomes, testResults \in TestOutcomes :
          executeCodeTool("t1", Some(i), code, None, db, testResults)
          => LET ran == HasCoding(i) /\ db = "found"
                 allPassed == /\ Len(testResults) > 0
                              /\ \A k \in 1..Len(testResults) : testResults[k]
             IN  /\ DOMAIN stateStore' = DOMAIN stateStore
                 /\ HasState(i) =>
                       stateStore'[i].phase =
                          IF ran /\ allPassed THEN "coding_review"
                          ELSE stateStore[i].phase
                 /\ ~ran => stateStore' = stateStore
                 /\ ran =>
                       LET coding == Get(stateStore'[i].codingState)
                           n == Len(Coding(i).submissions)
                       IN  /\ Len(coding.submissions) = n + 1
                           /\ SubSeq(coding.submissions, 1, n) = Coding(i).submissions
                           /\ coding.submissions[n + 1].result = TestRun(testResults)
                           /\ coding.testCasesPassed =
                                 Cardinality({k \in 1..Len(testResults) : testResults[k]})]_vars

\* a run in which both tests passed was answered: it is the one submission,
\* both tests count as passed and the interview is in the review phase
C17_AllPassedRunInReview ==
    /\ HasCoding("i1")
    /\ stateStore["i1"].phase = "coding_review"
    /\ Len(Coding("i1").submissions) = 1
    /\ Coding("i1").submissions[1].result = TestRun(<<TRUE, TRUE>>)
    /\ Coding("i1").testCasesPassed = 2
    /\ ret = buildResponse("t1", None, FALSE)

\* C18: when the database write of a persistState fails, periodic or final,
\* the call ends without an exception, the in-memory states are what they were
\* (persistedAt is not advanced), no further write is queued, and a
\* completeInterview waiting on it returns its state with the phase completed.
C18_FailedWriteIsSwallowed ==
    [][\A p \in pendingPersist :
          persistSettled(p, FALSE)
          => /\ stateStore' = stateStore
             /\ pendingPersist' = pendingPersist \ {p}
             /\ ret'.kind \in {"void", "state"}
             /\ p.caller = "complete" =>
                   ret' = [kind |-> "state", id |-> p.sid, phase |-> "completed"]
             /\ p.caller = "timer" => ret' = Void]_vars

\* the final write of a completed interview failed and so did a periodic one
\* settled after it: nothing was ever persisted and nothing is pending
C18_CompletedNeverPersisted ==
    /\ HasState("i1")
    /\ stateStore["i1"].phase = "completed"
    /\ stateStore["i1"].persistedAt = None
    /\ pendingPersist = {}
    /\ ret = Void
    /\ now > stateStore["i1"].startedAt

\* the trend as C19 states it: the mean of the last 3 scores of the window
\* against the mean of the scores before them; with no score before them
\* there is no prior mean to exceed or to trail
ClaimedTrend(window) ==
    LET n == Len(window)
        recent == SumSeq(SubSeq(window, n - 2, n))
        prior == SumSeq(SubSeq(window, 1, n - 3))
    IN  IF n > 3 /\ recent * (n - 3) > (prior + (n - 3)) * 3 THEN "improving"
        ELSE IF n > 3 /\ recent * (n - 3) < (prior - (n - 3)) * 3 THEN "declining"
        ELSE "stable"

\* C19: a recordAnswer leaves scoreTrend as it was while fewer than 3 scores
\* are recorded, and otherwise sets it by comparing the mean of the last 3
\* scores of the window with the mean of the window's scores before those 3:
\* improving when more than 1 above, declining when more than 1 below, stable
\* otherwise.
C19_TrendFollowsWindow ==
    [][\A i \in InterviewIds :
          (/\ HasState(i)
           /\ i \in DOMAIN stateStore'
           /\ stateStore'[i].performance.answeredQuestions =
                 stateStore[i].performance.answeredQuestions + 1)
          => LET window == stateStore'[i].performance.recentScores
             IN  stateStore'[i].performance.scoreTrend =
                    IF Len(window) < 3 THEN stateStore[i].performance.scoreTrend
                    ELSE ClaimedTrend(window)]_vars

\* the categories of a log that have a scored question
ScoredTopics(questions) ==
    {c \in QuestionCategories : ScoredIndices(questions, {c}) # {}}

\* the mean of the scored questions of one category
TopicMean(questions, c) ==
    Frac(TotalScore(questions, {c}), Cardinality(ScoredIndices(questions, {c})))

\* C20: when a recordAnswer returns, the stored average of every topic with
\* a scored question, the answered one included, is the mean of that topic's
\* scored questions, and strongAreas / weakAreas are the scored topics whose
\* average is more than 1 above / below the mean of the scored topics'
\* averages.
C20_AreasFromCurrentAverages ==
    [][\A i \in InterviewIds :
          (/\ HasState(i)
           /\ i \in DOMAIN stateStore'
           /\ stateStore'[i].performance.answeredQuestions =
                 stateStore[i].performance.answeredQuestions + 1)
          => LET state == stateStore'[i]
                 topics == ScoredTopics(state.questions)
                 average == [c \in topics |-> TopicMean(state.questions, c)]
                 mean == FracDivInt(FracSum(average, topics), Cardinality(topics))
             IN  /\ \A c \in topics :
                       /\ FracGE(state.topicCoverage[c].averageScore, average[c])
                       /\ FracLE(state.topicCoverage[c].averageScore, average[c])
                 /\ state.performance.strongAreas =
                       {c \in topics : FracGT(average[c], FracAdd(mean, FracInt(1)))}
                 /\ state.performance.weakAreas =
                       {c \in topics : FracLT(average[c], FracSub(mean, FracInt(1)))}]_vars

\* C21: recentScores never holds more than 5 scores and holds min(5, n) of
\* them after n successful recordAnswer calls; each successful call appends
\* its score behind the ones kept, and the oldest one leaves when a sixth
\* arrives; a call that finds no question leaves the window alone.
C21_WindowIsLastFive ==
    [][\A i \in InterviewIds :
          (HasState(i) /\ i \in DOMAIN stateStore')
          => LET perf == stateStore[i].performance
                 window == perf.recentScores
                 after == stateStore'[i].performance.recentScores
                 n == Len(window)
             IN  /\ n = (IF perf.answeredQuestions < 5
                         THEN perf.answeredQuestions ELSE 5)
                 /\ \A questionId \in {2, 99}, score \in WindowScores :
                       recordAnswer(i, questionId, score, None) =>
                          IF ret' = Null THEN after = window
                          ELSE after = (IF n < 5 THEN window
                                        ELSE SubSeq(window, 2, 5)) \o <<score>>]_vars

\* a sixth score arrived: the window holds five, the low one recorded last
\* behind four high ones
C21_SixthScoreArrived ==
    /\ HasState("i1")
    /\ Perf("i1").answeredQuestions = 6
    /\ Perf("i1").recentScores = <<7, 7, 7, 7, 3>>
    /\ Perf("i1").averageScore = Frac(3, 6)

\* C22: withRetry invokes fn at most maxRetries times; it resolves with the
\* value of the first successful invocation and invokes nothing after it; it
\* stops at the first error shouldRetry refuses; it sleeps once between two
\* consecutive invocations and never after the last; when no invocation
\* succeeds it rejects with the error of the last one.  withRetryAndFallback
\* always resolves, with the fallback exactly when withRetry rejects.
C22_RetryIsBounded ==
    ret.kind = "retry" =>
       LET run == ret.run
           outcomes == ret.outcomes
       IN  /\ run.calls <= ret.maxRetries
           /\ run.status \in {"resolved", "rejected"}
           /\ \A k \in 1..(run.calls - 1) : outcomes[k] = "transient"
           /\ run.status = "resolved" =>
                 /\ outcomes[run.calls] = "ok"
                 /\ run.value = Some(run.calls)
           /\ run.status = "rejected" =>
                 /\ run.calls > 0 =>
                       /\ outcomes[run.calls] # "ok"
                       /\ run.error = Some([call |-> run.calls,
                                            outcome |-> outcomes[run.calls]])
                       /\ outcomes[run.calls] = "fatal" \/ run.calls = ret.maxRetries
                 /\ run.calls = 0 => ret.maxRetries = 0
           /\ Len(run.sleeps) = (IF run.calls = 0 THEN 0 ELSE run.calls - 1)
           /\ \A k \in 1..Len(run.sleeps) :
                 /\ run.sleeps[k].after = k
                 /\ run.sleeps[k].ms >= 2000 * Pow2(k - 1)
           /\ ret.withFallback.status = "resolved"
           /\ ret.withFallback.value =
                 (IF run.status = "rejected" THEN Some(0) ELSE run.value)

\* fn failed transiently on each of three attempts: two sleeps, then the
\* rejection with the third error, and the fallback returned in its place
C22_ThreeTransientFailures ==
    /\ ret.kind = "retry"
    /\ ret.maxRetries = 3
    /\ ret.run.status = "rejected"
    /\ ret.run.calls = 3
    /\ ret.run.error = Some([call |-> 3, outcome |-> "transient"])
    /\ Len(ret.run.sleeps) = 2
    /\ ret.withFallback.value = Some(0)

\* C23: evaluate makes at most 3 LLM calls and a further one only after a
\* rate-limit error; when the last call failed its result is the fallback,
\* whose score is 4, 5, 6 or 7 by the answer length alone; and an
\* evaluateAnswer call on an existing question is answered with the
\* evaluation and leaves on that question the evaluation's score, which lies
\* between 1 and 10.
C23_EvaluationNeverFails ==
    /\ [](\A outcomes \in LlmBehaviours, rawScore \in RawScores,
             answerLength \in AnswerLengths :
             LET e == evaluate(outcomes, rawScore, FALSE, answerLength)
             IN  /\ e.attempts \in 1..3
                 /\ \A k \in 1..(e.attempts - 1) : outcomes[k] = "rateLimit"
                 /\ e.fallback <=> outcomes[e.attempts] # "ok"
                 /\ e.fallback =>
                       e.score = (IF answerLength < 50 THEN 4
                                  ELSE IF answerLength < 150 THEN 5
                                  ELSE IF answerLength < 500 THEN 6 ELSE 7)
                 /\ e.score \in 1..10)
    /\ [][\A e \in Evaluations :
             (/\ HasState("i1")
              /\ Log("i1") # <<>>
              /\ stateStore' # stateStore
              /\ evaluateAnswerTool("t1", Some("i1"), TRUE, None, e.score,
                                    e.suggestFollowUp))
             => LET k == Len(Log("i1"))
                IN  /\ stateStore'["i1"].questions[k].score = Some(e.score)
                    /\ e.score \in 1..10
                    /\ ret' = buildResponse("t1", None, FALSE)]_vars

\* the LLM failed and the short answer got the fallback score 4; the second
\* question, the current one, carries it and the first is unanswered
C23_FallbackScoreRecorded ==
    /\ HasState("i1")
    /\ Len(Log("i1")) = 2
    /\ Log("i1")[2].score = Some(4)
    /\ Log("i1")[1].score = None
    /\ ret = buildResponse("t1", None, FALSE)

\* the sum of questionsAsked over a set of topics
RECURSIVE AskedInTopics(_, _)
AskedInTopics(topicCoverage, topics) ==
    IF topics = {} THEN 0
    ELSE LET c == CHOOSE x \in topics : TRUE
         IN  topicCoverage[c].questionsAsked + AskedInTopics(topicCoverage, topics \ {c})

\* C24: in every state reached by initialize, recordQuestion and recordAnswer
\* calls, currentQuestionIndex is the log length minus 1, totalQuestions is
\* the log length and the sum of questionsAsked over the nine topics, and a
\* topic is covered exactly when its questionsAsked is above 0; and the log
\* of a state only grows: a step keeps the questions it held, in their order.
C24_LogAndCountersAgree ==
    /\ [](\A i \in DOMAIN stateStore :
             LET state == stateStore[i]
             IN  /\ state.currentQuestionIndex = Len(state.questions) - 1
                 /\ state.performance.totalQuestions = Len(state.questions)
                 /\ DOMAIN state.topicCoverage = QuestionCategories
                 /\ Cardinality(QuestionCategories) = 9
                 /\ AskedInTopics(state.topicCoverage, QuestionCategories)
                       = Len(state.questions)
                 /\ \A c \in QuestionCategories :
                       state.topicCoverage[c].covered
                          <=> state.topicCoverage[c].questionsAsked > 0)
    /\ [][\A i \in DOMAIN stateStore :
             (i \in DOMAIN stateStore' /\ stateStore'[i].id = stateStore[i].id)
             => LET old == stateStore[i].questions
                    new == stateStore'[i].questions
                IN  /\ Len(new) >= Len(old)
                    /\ \A k \in 1..Len(old) :
                          /\ new[k].id = old[k].id
                          /\ new[k].category = old[k].category]_vars

\* two questions of different topics are logged and the first is answered
C24_TwoTopicsAsked ==
    /\ HasState("i1")
    /\ Len(Log("i1")) = 2
    /\ Log("i1")[1].category = "behavioral"
    /\ Log("i1")[2].category = "closing"
    /\ Log("i1")[1].score = Some(8)
    /\ stateStore["i1"].currentQuestionIndex = 1

\* C25: hintsUsed never exceeds the number of available hints; a
\* getCodingHint call on a coding sub-state that has used k hints returns
\* hint k + 1 while one remains, raises hintsUsed by exactly 1 and reports
\* the hints left after it; once all are used it returns the no-more-hints
\* message with hintsRemaining 0 and leaves hintsUsed as it is; no other
\* call changes hintsUsed.
C25_HintsInOrder ==
    /\ [](\A i \in DOMAIN stateStore :
             IsSome(stateStore[i].codingState) =>
                Coding(i).hintsUsed \in 0..Len(Coding(i).hintsAvailable))
    /\ [][\A i \in InterviewIds :
             (HasCoding(i) /\ i \in DOMAIN stateStore'
                /\ IsSome(stateStore'[i].codingState)
                /\ stateStore'[i].id = stateStore[i].id)
             => LET used == Coding(i).hintsUsed
                    available == Coding(i).hintsAvailable
                    after == Get(stateStore'[i].codingState).hintsUsed
                IN  IF getCodingHint(i)
                    THEN IF used < Len(available)
                         THEN /\ after = used + 1
                              /\ ret' = HintReply(available[used + 1],
                                                  Len(available) - after)
                         ELSE /\ after = used
                              /\ ret' = NoMoreHints
                              /\ stateStore' = stateStore
                    ELSE after = used]_vars

\* the second and last hint of the first interview's problem was handed out,
\* the other interview has used none
C25_LastHintGiven ==
    /\ HasCoding("i1") /\ HasCoding("i2")
    /\ Coding("i1").hintsUsed = 2
    /\ Coding("i2").hintsUsed = 0
    /\ Coding("i2").problemId = "p1"
    /\ ret = HintReply("h2", 0)

(* C26: after any sequence of connect, JOIN_INTERVIEW, LEAVE_INTERVIEW and  *)
(* disconnect events, getConnectedClients(interviewId) is the number of     *)
(* connected sockets that joined the interview and have not left it since,  *)
(* and the room table keeps neither an empty set nor the id of a            *)
(* disconnected socket.                                                     *)
C26_RoomsMatchSockets ==
    \A i \in InterviewIds :
       /\ getConnectedClients(i) =
             Cardinality({s \in SocketIds : Connected(s) /\ i \in socketData[s].rooms})
       /\ i \in DOMAIN interviewRooms =>
             /\ interviewRooms[i] # {}
             /\ \A s \in interviewRooms[i] : Connected(s)

(* C27: a CODE_UPDATE or EXPRESSION_UPDATE event of a socket changes the    *)
(* state of interview X only while the socket is a member of X's room: a    *)
(* socket that never joined changes nothing, and after LEAVE_INTERVIEW for  *)
(* X its later events no longer modify X's coding sub-state or candidate    *)
(* signals.                                                                 *)
C27_UpdatesNeedMembership ==
    [][\A s \in SocketIds, i \in InterviewIds :
          (/\ HasState(i)
           /\ stateStore'[i] # stateStore[i]
           /\ \/ \E code \in {"", "ab"} : handleCodeUpdate(s, code, "python")
              \/ \E data \in ExpressionMessages : handleExpressionUpdate(s, data))
          => i \in socketData[s].rooms]_vars

(* C28: with prerequisites enabled, startRound on the round of order k      *)
(* succeeds only if every round of lower order in the session is COMPLETED  *)
(* or SKIPPED, whatever startRound, completeRound and skipRound calls came  *)
(* before; a locked round other than the first is rejected with 'Round is   *)
(* locked'.                                                                 *)
C28_StartNeedsEarlierRounds ==
    [][\A s \in SessionIds, r \in RoundIds :
          (s \in DOMAIN interviewSession /\ r \in DOMAIN interviewRound
             /\ startRound(s, r, TRUE))
          => /\ ret'.kind = "round" =>
                   \A q \in DOMAIN interviewRound :
                      (interviewRound[q].sessionId = s
                         /\ interviewRound[q].order < interviewRound[r].order)
                      => interviewRound[q].status \in {"COMPLETED", "SKIPPED"}
             /\ (interviewRound[r].order > 1 /\ interviewRound[r].isLocked)
                   => ret' = Throws("Round is locked. Complete previous rounds first.")]_vars

(* C29: once every round of a session has been completed by completeRound   *)
(* or skipped by skipRound (and those calls have returned), the session's   *)
(* status is COMPLETED, in whatever order the rounds were finished and also *)
(* when completeRound calls for different rounds interleave at their        *)
(* awaits; and a session is COMPLETED only if none of its rounds is         *)
(* NOT_STARTED or IN_PROGRESS.                                              *)
C29_AllRoundsDoneCompletesSession ==
    \A s \in DOMAIN interviewSession :
       LET rounds == {r \in DOMAIN interviewRound : interviewRound[r].sessionId = s}
       IN  /\ ((\A c \in pendingCalls : c.sessionId # s)
                 /\ \A r \in rounds : interviewRound[r].status \in {"COMPLETED", "SKIPPED"})
               => interviewSession[s].status = "COMPLETED"
           /\ interviewSession[s].status = "COMPLETED"
               => \A r \in rounds :
                     interviewRound[r].status \notin {"NOT_STARTED", "IN_PROGRESS"}

(* C30: an evaluateAnswer call without questionId issued while Q is the     *)
(* current question records its score on Q, also when getNextQuestion has   *)
(* recorded a newer question while the evaluation was awaited; every other  *)
(* question, the newer one included, is left as it was, and each completed  *)
(* call adds exactly one score to the aggregates (answeredQuestions, the    *)
(* window of recent scores).                                                *)
C30_AnswerLandsOnItsQuestion ==
    /\ [][\A c \in pendingCalls' \ pendingCalls :
             c.op = "evaluateAnswer" =>
                LET old == stateStore[c.interviewId]
                IN  c.questionId = old.questions[old.currentQuestionIndex + 1].id]_vars
    /\ [][\A c \in pendingCalls \ pendingCalls' :
             c.op = "evaluateAnswer" =>
                LET old == stateStore[c.interviewId]
                    new == stateStore'[c.interviewId]
                    k == FindQuestion(old.questions, c.questionId)
                    pushed == Append(old.performance.recentScores, ret'.score)
                IN  /\ ret'.kind = "evaluation"
                    /\ k > 0
                    /\ Len(new.questions) = Len(old.questions)
                    /\ new.questions[k].score = Some(ret'.score)
                    /\ \A j \in 1..Len(old.questions) :
                          j # k => new.questions[j] = old.questions[j]
                    /\ new.performance.answeredQuestions =
                          old.performance.answeredQuestions + 1
                    /\ new.performance.recentScores =
                          IF Len(pushed) > 5 THEN Tail(pushed) ELSE pushed]_vars

\* an evaluation has just returned, recorded on the first question, while the
\* second one, asked meanwhile, is unanswered
C30_NewerQuestionUnanswered ==
    /\ ret.kind = "evaluation"
    /\ HasState("i1")
    /\ Len(Log("i1")) = 2
    /\ Log("i1")[1].score = Some(ret.score)
    /\ Log("i1")[2].score = None
    /\ Perf("i1").answeredQuestions = 1

====
